---- MODULE Spec2Model ----
(***************************************************************************)
(* A model of the worker-offload protocol, the geometry capture pipeline   *)
(* and the render-pass scheduling of the webgl layout engine.              *)
(*                                                                         *)
(*   SpecWM          src/engine/workerManager.js   WorkerManager           *)
(*   SpecClip        src/engine/WebEngine.jsx, src/canvasEngine/           *)
(*                   CanvasEngine.jsx   GeometrySnapshot.captureNode clips *)
(*   SpecCapture     the same files     GeometrySnapshot.capture           *)
(*   SpecCanvasStage src/canvasEngine/CanvasStage.jsx   render effect      *)
(*   SpecWebGLStage  src/engine/WebEngine.jsx   WebGLStage render effect   *)
(*                                                                         *)
(* The models share one list of variables; each specification keeps the    *)
(* variables of the other models at their idle values.                     *)
(***************************************************************************)
EXTENDS Integers, Sequences, FiniteSets, TLC

(***************************************************************************)
(* Bounds of the model and fixed values of the program.                    *)
(***************************************************************************)
\* poolSize of the style and gradient worker singletons
PoolSize == 2
\* calls of execute()/ping() in one run of the WorkerManager model
MaxRequests == 2
\* runtime errors raised by the workers in one run
MaxErrors == 1
\* depth of the element tree walked by captureNode in the clip model
MaxDepth == 3
\* unit of the element rectangles drawn in the clip model
MaxCoord == 1
\* runs of the render effect of a stage component
MaxPasses == 2
\* sections in the props of a stage component
MaxSections == 2
\* children of the root element listed in the capture model
MaxChildren == 2
\* nodes of the snapshot in the paint order model
MaxPaintNodes == 3
\* the nodes of a layout tree
MaxLayoutNodes == 3
\* the children of a FlexNode
MaxFlexChildren == 3
\* the tracks of one axis of a grid
MaxTracks == 3
\* "return maxSize || 50": an auto track no child is placed in
AutoTrackSize == 50
\* the nodes of a style batch
MaxBatchNodes == 2
\* the ancestors of the captured element below document.body
MaxAncestors == 2
\* the nodes of a snapshot whose pass may fail
MaxPassNodes == 4
\* the nodes of a cached section snapshot
MaxCachedNodes == 1
\* the cross-axis size of the content box of a FlexNode
MaxCross == 100
\* the columns of a grid template, and the highest index of a grid child
MaxGridColumns == 2
MaxGridIndex == 3
\* the children of a BlockNode
MaxBlockChildren == 3
\* the capture() calls made on one GeometrySnapshot
MaxCaptures == 2
\* "element.children.length > 30": above it captureNode batches the styles
BatchThreshold == 30

VARIABLES
    \* ---- WorkerManager (workerManager.js) ----
    workers,             \* this.workers: index -> [busy, ready]
    currentWorkerIndex,  \* this.currentWorkerIndex
    pendingRequests,     \* this.pendingRequests: the ids that have an entry
    requestIdCounter,    \* this.requestIdCounter
    isReady,             \* this.isReady
    fallbackMode,        \* this.fallbackMode
    readyPromise,        \* this.readyPromise: "pending", "true" or "false"
    checkReadyDone,      \* the setTimeout(checkReady, 100) callback has run
    created,             \* the worker pool was created (Worker is supported)
    sentReady,           \* worker side: the script has posted READY
    mailbox,             \* worker side: requests posted to it, not yet handled
    calls,               \* every execute() call and what became of its promise
    errors,              \* the worker runtime errors so far
    lastMessage,         \* the message handleMessage handled in the last step
    \* ---- GeometrySnapshot.captureNode, clip regions ----
    snapshotEngine,      \* which copy of GeometrySnapshot runs
    captureStack,        \* the active captureNode calls, root first: each with
                         \* its nodeData (x, y, width, height, clip) and its
                         \* local currentClip
    \* ---- CanvasStage ----
    renderInProgress,    \* renderInProgress.current, the cancellation counter
    renderPasses,        \* the runs of the render effect: currentRenderId, props,
                         \* and where the run's renderAll stands
    fabricCanvas,        \* the objects on the fabric canvas, each with the pass
                         \* that added it
    isRendering,         \* the isRendering state of the component
    renderCache,         \* the keys of renderCache.current
    staleOps,            \* what a pass did to the canvas or to isRendering while
                         \* a newer pass had started
    \* ---- WebGLStage ----
    glPasses,            \* the runs of the rendering effect: the isCancelled flag
                         \* of the closure, its props, where its render() stands
    layers,              \* layers.current: the children of the background,
                         \* shapes, sections and lines containers, each with the
                         \* pass that created it
    \* ---- GeometrySnapshot.capture, style and gradient resolution ----
    capEngine,           \* which copy of GeometrySnapshot runs
    capWorkers,          \* options.styleWorker and options.gradientWorker: none,
                         \* a WorkerManager, or a Worker
    capPc,               \* where capture() stands
    nodes,               \* this.nodes: per node how its heavy style fields and
                         \* its gradient were resolved
    stylePromises,       \* the style promises capture() awaits
    gradientPromises,    \* this.gradientPromises
    rawInbox,            \* requests posted to a Worker and not handled yet
    rawHandler,          \* gradientWorker.onmessage: the gradient promise whose
                         \* handler is installed (0: none)
    rawReady,            \* the READY message of the gradient Worker is under way
    \* ---- paint order of a snapshot ----
    paintNodes,          \* snapshot.nodes: the node-level zIndex and styles.zIndex
    paintOrder,          \* per renderer entry point the nodes in the order it
                         \* painted them (empty: it has not run)
    \* ---- CanvasLayoutEngine.renderLayoutTree ----
    layoutEngine,        \* which copy of CanvasLayoutEngine runs
    layoutTree,          \* the tree under rootNode: class and parent per node
    layoutPc,            \* where renderLayoutTree stands
    callStack,           \* the running measure/layout/render calls, root first
    intrinsicSize,       \* the nodes whose intrinsicSize is not null
    phaseCalls,          \* per phase and node, how often the method was called
    phaseReturns,        \* per phase and node, how often the method returned
    \* ---- FlexNode.layout ----
    flexChildren,        \* this.children of the FlexNode: intrinsic size and props
    flexResult,          \* the sizes and positions layout() computed, with its inputs
    \* ---- GridNode.resolveGridTracks ----
    gridTracks,          \* the template of one axis: gridTemplateColumns or Rows
    gridResult,          \* the sizes resolveGridTracks returned, with its inputs
    \* ---- style batches and gradient parsers ----
    rawStyles,           \* batch.rawStyles of a style batch
    workerStyles,        \* the styles of batch.nodes after the worker's result
    localStyles,         \* the styles of batch.nodes after processBatchLocally
    workerGradients,     \* the gradients the gradient workers parsed
    \* ---- GeometrySnapshot.capture, inline transforms ----
    domChain,            \* the element and its ancestors, element first: the
                         \* inline transform and the kind of each
    beforeCall,          \* the inline transforms when capture() was called
    transforms,          \* the local array transforms of capture()
    current,             \* the local variable current: an index of domChain
    capturePc,           \* where capture() stands
    captureOutcome,      \* how the last call of capture() ended
    \* ---- renderer passes over a snapshot with failing nodes ----
    passRenderer,        \* which renderer runs the pass
    sortedNodes,         \* sortedNodes of the pass: what fails in each node
    nodeIndex,           \* the position of the loop over sortedNodes
    painted,             \* the nodes whose renderNode call has returned
    passPc,              \* where the pass stands
    \* ---- CanvasStage, the bitmap cache of the sections ----
    sectionCache,        \* renderCache.current: cache key -> bitmap
    lastImage,           \* imgData of the last section drawn, with the
                         \* snapshot it was asked for
    \* ---- FlexNode.calculateCrossSize ----
    crossResult,         \* the cross size layout() computed for a child, with
                         \* its inputs
    \* ---- GridNode.layout, placement and bounds of a child ----
    gridLayout,          \* the placement and the bounds layout() computed for a
                         \* child, with its inputs
    \* ---- BlockNode.layout ----
    blockLayout,         \* the bounds layout() gave the children of a block,
                         \* with its inputs
    \* ---- overlapping capture() calls on one GeometrySnapshot ----
    instance,            \* the fields of the instance: which array this.nodes,
                         \* this.stylePromises and this.gradientPromises
                         \* refer to, and this.rootWidth
    arrays,              \* the arrays the calls made: nodes and promises
    captures             \* each capture() call: where it is, what it returned

wmVars == <<workers, currentWorkerIndex, pendingRequests, requestIdCounter,
            isReady, fallbackMode, readyPromise, checkReadyDone, created,
            sentReady, mailbox, calls, errors, lastMessage>>

clipVars == <<snapshotEngine, captureStack>>

stageVars == <<renderInProgress, renderPasses, fabricCanvas, isRendering,
               renderCache, staleOps>>

glVars == <<glPasses, layers>>

capVars == <<capEngine, capWorkers, capPc, nodes, stylePromises, gradientPromises,
             rawInbox, rawHandler, rawReady>>

paintVars == <<paintNodes, paintOrder>>

layoutVars == <<layoutEngine, layoutTree, layoutPc, callStack, intrinsicSize, phaseCalls, phaseReturns>>

flexVars == <<flexChildren, flexResult>>

gridVars == <<gridTracks, gridResult>>

stylesVars == <<rawStyles, workerStyles, localStyles, workerGradients>>

transformVars == <<domChain, beforeCall, transforms, current, capturePc, captureOutcome>>

passVars == <<passRenderer, sortedNodes, nodeIndex, painted, passPc>>

cacheVars == <<sectionCache, lastImage>>

crossVars == <<crossResult>>

placeVars == <<gridLayout>>

blockVars == <<blockLayout>>

overlapVars == <<instance, arrays, captures>>

vars == <<wmVars, clipVars, stageVars, glVars, capVars, paintVars, layoutVars, flexVars, gridVars, stylesVars, transformVars, passVars, cacheVars, crossVars, placeVars, blockVars, overlapVars>>

\* what the steps of one model leave alone: the variables of the other models
wmOthers == <<clipVars, stageVars, glVars, capVars, paintVars, layoutVars, flexVars, gridVars, stylesVars, transformVars, passVars, cacheVars, crossVars, placeVars, blockVars, overlapVars>>
clipOthers == <<wmVars, stageVars, glVars, capVars, paintVars, layoutVars, flexVars, gridVars, stylesVars, transformVars, passVars, cacheVars, crossVars, placeVars, blockVars, overlapVars>>
stageOthers == <<wmVars, clipVars, glVars, capVars, paintVars, layoutVars, flexVars, gridVars, stylesVars, transformVars, passVars, cacheVars, crossVars, placeVars, blockVars, overlapVars>>
glOthers == <<wmVars, clipVars, stageVars, capVars, paintVars, layoutVars, flexVars, gridVars, stylesVars, transformVars, passVars, cacheVars, crossVars, placeVars, blockVars, overlapVars>>
capOthers == <<wmVars, clipVars, stageVars, glVars, paintVars, layoutVars, flexVars, gridVars, stylesVars, transformVars, passVars, cacheVars, crossVars, placeVars, blockVars, overlapVars>>
paintOthers == <<wmVars, clipVars, stageVars, glVars, capVars, layoutVars, flexVars, gridVars, stylesVars, transformVars, passVars, cacheVars, crossVars, placeVars, blockVars, overlapVars>>
layoutOthers == <<wmVars, clipVars, stageVars, glVars, capVars, paintVars, flexVars, gridVars, stylesVars, transformVars, passVars, cacheVars, crossVars, placeVars, blockVars, overlapVars>>
flexOthers == <<wmVars, clipVars, stageVars, glVars, capVars, paintVars, layoutVars, gridVars, stylesVars, transformVars, passVars, cacheVars, crossVars, placeVars, blockVars, overlapVars>>
gridOthers == <<wmVars, clipVars, stageVars, glVars, capVars, paintVars, layoutVars, flexVars, stylesVars, transformVars, passVars, cacheVars, crossVars, placeVars, blockVars, overlapVars>>
stylesOthers == <<wmVars, clipVars, stageVars, glVars, capVars, paintVars, layoutVars, flexVars, gridVars, transformVars, passVars, cacheVars, crossVars, placeVars, blockVars, overlapVars>>
transformOthers == <<wmVars, clipVars, stageVars, glVars, capVars, paintVars, layoutVars, flexVars, gridVars, stylesVars, passVars, cacheVars, crossVars, placeVars, blockVars, overlapVars>>
passOthers == <<wmVars, clipVars, stageVars, glVars, capVars, paintVars, layoutVars, flexVars, gridVars, stylesVars, transformVars, cacheVars, crossVars, placeVars, blockVars, overlapVars>>
cacheOthers == <<wmVars, clipVars, stageVars, glVars, capVars, paintVars, layoutVars, flexVars, gridVars, stylesVars, transformVars, passVars, crossVars, placeVars, blockVars, overlapVars>>
crossOthers == <<wmVars, clipVars, stageVars, glVars, capVars, paintVars, layoutVars, flexVars, gridVars, stylesVars, transformVars, passVars, cacheVars, placeVars, blockVars, overlapVars>>
placeOthers == <<wmVars, clipVars, stageVars, glVars, capVars, paintVars, layoutVars, flexVars, gridVars, stylesVars, transformVars, passVars, cacheVars, crossVars, blockVars, overlapVars>>
blockOthers == <<wmVars, clipVars, stageVars, glVars, capVars, paintVars, layoutVars, flexVars, gridVars, stylesVars, transformVars, passVars, cacheVars, crossVars, placeVars, overlapVars>>
overlapOthers == <<wmVars, clipVars, stageVars, glVars, capVars, paintVars, layoutVars, flexVars, gridVars, stylesVars, transformVars, passVars, cacheVars, crossVars, placeVars, blockVars>>

(***************************************************************************)
(* WorkerManager                                                           *)
(***************************************************************************)
WorkerIds == 0 .. (PoolSize - 1)

RequestTypes == {"PARSE_STYLES", "PING"}

NoMessage == [w |-> -1, type |-> "none", id |-> -1, matched |-> FALSE]

SetMin(S) == CHOOSE x \in S : \A y \in S : x <= y

\* the calls whose request id is id
CallsOf(id) == {k \in DOMAIN calls : calls[k].id = id}

\* constructor, with initialize() up to its two timers: either Worker or
\* OffscreenCanvas is missing (fallback mode at once, no pool), or the pool is
\* created with every worker neither busy nor ready.
WMInit ==
    /\ created \in BOOLEAN
    /\ fallbackMode = ~created
    /\ readyPromise = (IF created THEN "pending" ELSE "false")
    /\ workers = [w \in WorkerIds |-> [busy |-> FALSE, ready |-> FALSE]]
    /\ currentWorkerIndex = 0
    /\ pendingRequests = {}
    /\ requestIdCounter = 0
    /\ isReady = FALSE
    /\ checkReadyDone = FALSE
    /\ sentReady = [w \in WorkerIds |-> FALSE]
    /\ mailbox = [w \in WorkerIds |-> {}]
    /\ calls = <<>>
    /\ errors = 0
    /\ lastMessage = NoMessage

\* checkReady, run once 100 ms after construction
checkReady ==
    /\ created
    /\ ~checkReadyDone
    /\ checkReadyDone' = TRUE
    /\ IF \A w \in WorkerIds : workers[w].ready
       THEN isReady' = TRUE /\ readyPromise' = "true"
       ELSE UNCHANGED <<isReady, readyPromise>>
    /\ lastMessage' = NoMessage
    /\ UNCHANGED <<workers, currentWorkerIndex, pendingRequests, requestIdCounter,
                   fallbackMode, created, sentReady, mailbox, calls, errors>>

\* readyTimeout, 5000 ms after construction unless checkReady cleared it
readyTimeout ==
    /\ created
    /\ checkReadyDone
    /\ readyPromise = "pending"
    /\ fallbackMode' = TRUE
    /\ readyPromise' = "false"
    /\ lastMessage' = NoMessage
    /\ UNCHANGED <<workers, currentWorkerIndex, pendingRequests, requestIdCounter,
                   isReady, checkReadyDone, created, sentReady, mailbox, calls, errors>>

\* a plausible slip: the oldest pending request is taken whatever the id
MatchRequestAny(id) ==
    IF pendingRequests # {} THEN {SetMin(pendingRequests)} ELSE {}

\* pendingRequests.get(id): the entries a message with this id settles
MatchRequest(id) == IF id \in pendingRequests THEN {id} ELSE {}

\* settle the promises of the requests in ids (the wrappers clear the timer)
Settled(ids, outcome, by) ==
    [k \in DOMAIN calls |->
        IF calls[k].id \in ids /\ calls[k].outcome = "pending"
        THEN [calls[k] EXCEPT !.outcome = outcome, !.timer = FALSE, !.errWorker = by]
        ELSE calls[k]]

\* handleMessage(e, workerIndex) with e.data = {type, id}
handleMessage(w, type, id) ==
    /\ lastMessage' = [w |-> w, type |-> type, id |-> id,
                       matched |-> (type \notin {"READY", "PONG"} /\ id \in pendingRequests)]
    /\ IF type = "READY"
       THEN /\ workers' = [workers EXCEPT ![w].ready = TRUE]
            /\ UNCHANGED <<pendingRequests, calls>>
       ELSE IF type = "PONG"
       THEN /\ calls' = [k \in DOMAIN calls |->
                           IF calls[k].id = id /\ calls[k].outcome = "pending"
                           THEN [calls[k] EXCEPT !.pong = TRUE]
                           ELSE calls[k]]
            /\ UNCHANGED <<pendingRequests, workers>>
       ELSE LET hit == MatchRequest(id) IN
            IF hit # {}
            THEN /\ pendingRequests' = pendingRequests \ hit
                 /\ workers' = [workers EXCEPT ![w].busy = FALSE]
                 /\ calls' = Settled(hit, IF type = "ERROR" THEN "rejected" ELSE "resolved", -1)
            ELSE UNCHANGED <<pendingRequests, workers, calls>>

\* handleError(error, workerIndex): forEach over the whole pendingRequests map
handleError(w) ==
    /\ calls' = Settled(pendingRequests, "rejected_error", w)
    /\ pendingRequests' = {}
    /\ workers' = [workers EXCEPT ![w] = [busy |-> FALSE, ready |-> FALSE]]

RoundRobin(start, k) == (start + k) % PoolSize

\* getNextWorker(): the chosen worker and the new currentWorkerIndex
getNextWorker ==
    LET start == currentWorkerIndex
        free == {k \in 0 .. (PoolSize - 1) :
                    /\ workers[RoundRobin(start, k)].ready
                    /\ ~workers[RoundRobin(start, k)].busy}
    IN IF free # {}
       THEN [w |-> RoundRobin(start, SetMin(free)),
             next |-> RoundRobin(start, SetMin(free) + 1)]
       ELSE [w |-> start, next |-> RoundRobin(start, 1)]

\* requestIdCounter++
NextRequestId == requestIdCounter + 1

NewCall(type, id, w, outcome) ==
    [type |-> type, id |-> id, worker |-> w,
     postedReady |-> (IF w >= 0 THEN workers[w].ready ELSE TRUE),
     timer |-> (outcome = "pending"), outcome |-> outcome,
     errWorker |-> -1, pong |-> FALSE]

\* execute(type, data, timeout); throws: postMessage raises
execute(type, throws) ==
    /\ Len(calls) < MaxRequests
    /\ readyPromise # "pending"           \* await this.readyPromise
    /\ lastMessage' = NoMessage
    /\ IF fallbackMode
       THEN /\ calls' = Append(calls, NewCall(type, -1, -1, "null"))
            /\ UNCHANGED <<workers, currentWorkerIndex, pendingRequests,
                           requestIdCounter, mailbox>>
       ELSE LET id == requestIdCounter
                sel == getNextWorker
            IN /\ requestIdCounter' = NextRequestId
               /\ currentWorkerIndex' = sel.next
               /\ IF throws
                  THEN /\ workers' = [workers EXCEPT ![sel.w].busy = FALSE]
                       /\ calls' = Append(calls, NewCall(type, id, sel.w, "rejected_post"))
                       /\ UNCHANGED <<pendingRequests, mailbox>>
                  ELSE /\ workers' = [workers EXCEPT ![sel.w].busy = TRUE]
                       /\ pendingRequests' = pendingRequests \cup {id}
                       /\ mailbox' = [mailbox EXCEPT ![sel.w] = @ \cup {id}]
                       /\ calls' = Append(calls, NewCall(type, id, sel.w, "pending"))
    /\ UNCHANGED <<isReady, fallbackMode, readyPromise, checkReadyDone, created,
                   sentReady, errors>>

Execute == \E type \in RequestTypes, throws \in BOOLEAN : execute(type, throws)

\* the setTimeout callback of execute for request id
requestTimeout(k) ==
    /\ calls[k].timer
    /\ lastMessage' = NoMessage
    /\ IF calls[k].id \in pendingRequests
       THEN /\ pendingRequests' = pendingRequests \ {calls[k].id}
            /\ workers' = [workers EXCEPT ![calls[k].worker].busy = FALSE]
            /\ calls' = [calls EXCEPT ![k].outcome = "rejected_timeout", ![k].timer = FALSE]
       ELSE /\ calls' = [calls EXCEPT ![k].timer = FALSE]
            /\ UNCHANGED <<pendingRequests, workers>>
    /\ UNCHANGED <<currentWorkerIndex, requestIdCounter, isReady, fallbackMode,
                   readyPromise, checkReadyDone, created, sentReady, mailbox, errors>>

RequestTimeout == \E k \in DOMAIN calls : requestTimeout(k)

\* the worker script ends with self.postMessage({ type: 'READY' })
WorkerReady ==
    \E w \in WorkerIds :
        /\ created
        /\ ~sentReady[w]
        /\ sentReady' = [sentReady EXCEPT ![w] = TRUE]
        /\ handleMessage(w, "READY", -1)
        /\ UNCHANGED <<currentWorkerIndex, requestIdCounter, isReady, fallbackMode,
                       readyPromise, checkReadyDone, created, mailbox, errors>>

\* what self.onmessage of the worker posts back for a request
AnswerTypes(type) ==
    IF type = "PING" THEN {"PONG"} ELSE {"STYLES_PROCESSED", "ERROR"}

\* a worker handles one request of its mailbox and the manager gets the answer
WorkerAnswer ==
    \E w \in WorkerIds : \E id \in mailbox[w] : \E k \in CallsOf(id) :
      \E type \in AnswerTypes(calls[k].type) :
        /\ sentReady[w]
        /\ mailbox' = [mailbox EXCEPT ![w] = @ \ {id}]
        /\ handleMessage(w, type, id)
        /\ UNCHANGED <<currentWorkerIndex, requestIdCounter, isReady, fallbackMode,
                       readyPromise, checkReadyDone, created, sentReady, errors>>

\* worker.onerror: an uncaught error in worker w; the request it was handling,
\* if any, is never answered
WorkerError ==
    \E w \in WorkerIds : \E dropped \in mailbox[w] \cup {-1} :
        /\ created
        /\ sentReady[w]
        /\ errors < MaxErrors
        /\ errors' = errors + 1
        /\ mailbox' = [mailbox EXCEPT ![w] = @ \ {dropped}]
        /\ handleError(w)
        /\ lastMessage' = NoMessage
        /\ UNCHANGED <<currentWorkerIndex, requestIdCounter, isReady, fallbackMode,
                       readyPromise, checkReadyDone, created, sentReady>>

WMNext ==
    \/ checkReady /\ UNCHANGED wmOthers
    \/ readyTimeout /\ UNCHANGED wmOthers
    \/ Execute /\ UNCHANGED wmOthers
    \/ RequestTimeout /\ UNCHANGED wmOthers
    \/ WorkerReady /\ UNCHANGED wmOthers
    \/ WorkerAnswer /\ UNCHANGED wmOthers
    \/ WorkerError /\ UNCHANGED wmOthers

\* the WorkerManager before it is constructed (the other models leave it so)
WMOff ==
    /\ created = FALSE
    /\ fallbackMode = FALSE
    /\ readyPromise = "pending"
    /\ workers = [w \in WorkerIds |-> [busy |-> FALSE, ready |-> FALSE]]
    /\ currentWorkerIndex = 0
    /\ pendingRequests = {}
    /\ requestIdCounter = 0
    /\ isReady = FALSE
    /\ checkReadyDone = FALSE
    /\ sentReady = [w \in WorkerIds |-> FALSE]
    /\ mailbox = [w \in WorkerIds |-> {}]
    /\ calls = <<>>
    /\ errors = 0
    /\ lastMessage = NoMessage


(***************************************************************************)
(* Claims about the WorkerManager, checked under SpecWM.                   *)
(***************************************************************************)
\* what ping() resolves to: execute resolved (or returned null) gives true,
\* a rejection gives false
PingResult(k) ==
    IF calls[k].outcome \in {"null", "resolved"} THEN "true"
    ELSE IF calls[k].outcome = "pending" THEN "pending"
    ELSE "false"

C3_UniqueIds ==
    \A i, j \in DOMAIN calls :
        (i # j /\ calls[i].id >= 0) => calls[i].id # calls[j].id

C3_MessageStep ==
    LET m == lastMessage' IN
    (m.type # "none" /\ DOMAIN calls' = DOMAIN calls) =>
        /\ \A k \in DOMAIN calls :
              calls'[k].outcome # calls[k].outcome =>
                  (calls[k].id = m.id /\ m.id \in pendingRequests)
        /\ pendingRequests' \subseteq pendingRequests
        /\ (pendingRequests \ pendingRequests') \subseteq {m.id}
        /\ m.id \notin pendingRequests =>
              /\ pendingRequests' = pendingRequests
              /\ \A k \in DOMAIN calls : calls'[k].outcome = calls[k].outcome

\* C3: every request of a manager has an id no other request of it has, and a
\* worker message settles only the pending request whose id is the message's
\* id; a message whose id matches no pending request changes no pending
\* request and settles no promise.
C3_IdCorrelation == [](C3_UniqueIds) /\ [][C3_MessageStep]_vars

\* C3's case: an answer arrives for a request that has already timed out or
\* been rejected, while another request is still pending, and is dropped.
C3_Witness ==
    /\ lastMessage.type \in {"STYLES_PROCESSED", "ERROR"}
    /\ ~lastMessage.matched
    /\ lastMessage.id >= 0
    /\ pendingRequests # {}
    /\ \E k \in DOMAIN calls : calls[k].id \in pendingRequests /\ calls[k].outcome = "pending"

\* C4: a runtime error of worker i rejects exactly the requests in flight on
\* worker i; the requests in flight on the other workers stay pending.
C4_ErrorRejectsOwnRequestsOnly ==
    \A k \in DOMAIN calls :
        calls[k].outcome = "rejected_error" => calls[k].worker = calls[k].errWorker

\* C5: execute never posts a request to a worker whose ready flag is false.
C5_PostsOnlyToReadyWorker ==
    \A k \in DOMAIN calls : calls[k].worker >= 0 => calls[k].postedReady

\* C6: ping() resolves true if and only if a worker answered the PING with a
\* PONG of the same id before the timeout, and false when no worker answers.
C6_PingTrueIffPong ==
    \A k \in DOMAIN calls :
        (calls[k].type = "PING" /\ PingResult(k) # "pending") =>
            (PingResult(k) = "true" <=> calls[k].pong)

\* the step in which the 5000 ms timer of initialize() gives up on the pool
GivesUpOnWorkers == ~fallbackMode /\ fallbackMode'

\* C30: when every worker of the pool posts READY before the 5000 ms timeout,
\* whatever the arrival times, the manager does not fall back: fallbackMode is
\* set on a created pool only when some worker has not posted READY by then.
C30_FallbackOnlyWhenSomeWorkerSilent ==
    [][GivesUpOnWorkers => \E w \in WorkerIds : ~sentReady[w]]_vars

\* C30's failing case: every worker has posted READY, none has failed, and the
\* manager is in fallback mode with readyPromise resolved false.
C30_AllReadyYetFallback ==
    /\ created
    /\ errors = 0
    /\ \A w \in WorkerIds : sentReady[w] /\ workers[w].ready
    /\ fallbackMode
    /\ readyPromise = "false"
    /\ ~isReady

(***************************************************************************)
(* WorkerManager.terminate(), src/engine/workerManager.js 225-232, and the *)
(* manager after it.  The array of workers is emptied, so workers becomes  *)
(* the empty function; terminated workers post nothing more.  terminate is *)
(* taken once the 100 ms check of initialize() has run.                    *)
(***************************************************************************)
Terminated == DOMAIN workers = {}

\* this.currentWorkerIndex after '(i + 1) % this.workers.length' with length 0
NaNIndex == -1

\* terminate(): the workers are terminated and forgotten, the map of pending
\* requests is cleared; no promise is settled and no timer is cleared
terminate ==
    /\ created
    /\ checkReadyDone
    /\ ~Terminated
    /\ workers' = <<>>
    /\ pendingRequests' = {}
    /\ isReady' = FALSE
    /\ mailbox' = [w \in WorkerIds |-> {}]
    /\ lastMessage' = NoMessage
    /\ UNCHANGED <<currentWorkerIndex, requestIdCounter, fallbackMode, readyPromise,
                   checkReadyDone, created, sentReady, calls, errors>>

\* execute(type, data, timeout) on a terminated manager: null in fallback
\* mode; otherwise getNextWorker() reads this.workers[i] of the empty array
\* and 'workerInfo.ready' throws inside the promise executor, which rejects
executeTerminated(type) ==
    /\ Terminated
    /\ Len(calls) < MaxRequests
    /\ readyPromise # "pending"
    /\ lastMessage' = NoMessage
    /\ IF fallbackMode
       THEN /\ calls' = Append(calls, NewCall(type, -1, -1, "null"))
            /\ UNCHANGED <<currentWorkerIndex, requestIdCounter>>
       ELSE /\ requestIdCounter' = NextRequestId
            /\ currentWorkerIndex' = NaNIndex
            /\ calls' = Append(calls, NewCall(type, requestIdCounter, -1, "rejected"))
    /\ UNCHANGED <<workers, pendingRequests, mailbox, isReady, fallbackMode,
                   readyPromise, checkReadyDone, created, sentReady, errors>>

ExecuteTerminated == \E type \in RequestTypes : executeTerminated(type)

TerminateNext ==
    \/ checkReady /\ UNCHANGED wmOthers
    \/ readyTimeout /\ UNCHANGED wmOthers
    \/ ~Terminated /\ Execute /\ UNCHANGED wmOthers
    \/ RequestTimeout /\ UNCHANGED wmOthers
    \/ ~Terminated /\ WorkerReady /\ UNCHANGED wmOthers
    \/ ~Terminated /\ WorkerAnswer /\ UNCHANGED wmOthers
    \/ ~Terminated /\ WorkerError /\ UNCHANGED wmOthers
    \/ terminate /\ UNCHANGED wmOthers
    \/ ExecuteTerminated /\ UNCHANGED wmOthers

\* C27: every promise returned by execute settles under every interleaving of
\* answers, timeouts, worker errors and terminate(): a request that
\* pendingRequests holds no entry for has a promise that is already settled,
\* so that no request is left pending with nothing to settle it.
C27_NoEntryMeansSettled ==
    \A k \in DOMAIN calls :
        calls[k].outcome = "pending" => calls[k].id \in pendingRequests

\* C27's failing case: a terminated manager with a request whose promise is
\* pending, whose entry is gone and whose timer has already run out
C27_PendingForever ==
    /\ Terminated
    /\ \E k \in DOMAIN calls :
          /\ calls[k].outcome = "pending"
          /\ ~calls[k].timer
          /\ calls[k].id \notin pendingRequests

(***************************************************************************)
(* GeometrySnapshot.captureNode: the clip region of a node and the clip it *)
(* passes to its children                                                  *)
(*   src/engine/WebEngine.jsx 151-274, src/canvasEngine/CanvasEngine.jsx   *)
(*   130-226.  A text node is recorded like a box and makes no recursive   *)
(* call; an element with display none or opacity 0 records nothing: both   *)
(* are a box without children as far as clips go.  captureStack holds the  *)
(* nodes of the call chain; a node whose call has returned is not changed  *)
(* any more.                                                               *)
(***************************************************************************)
Engines == {"WebEngine", "CanvasEngine"}

Null == [kind |-> "null"]

Clip(x, y, width, height, radius) ==
    [kind |-> "clip", x |-> x, y |-> y, width |-> width, height |-> height,
     radius |-> radius]

\* element rectangles relative to the root, as getBoundingClientRect gives them
Intervals == {[lo |-> 0, len |-> 2 * MaxCoord], [lo |-> MaxCoord, len |-> 2 * MaxCoord],
              [lo |-> 0, len |-> MaxCoord], [lo |-> MaxCoord, len |-> 0]}

Rects == {[x |-> h.lo, y |-> v.lo, width |-> h.len, height |-> v.len] :
            h \in Intervals, v \in {i \in Intervals : i.len = 2 * MaxCoord}}

\* computed.overflow and computed.borderRadius of an element
BoxStyles == {[overflow |-> "visible", unit |-> "px", value |-> 0],
              [overflow |-> "hidden", unit |-> "px", value |-> 1],
              [overflow |-> "auto", unit |-> "%", value |-> 100]}

Elements == {[rect |-> r, style |-> st] : r \in Rects, st \in BoxStyles}

Min2(a, b) == IF a < b THEN a ELSE b
Max2(a, b) == IF a > b THEN a ELSE b

\* the radius of myClip: WebEngine resolves a percentage against
\* min(width, height), CanvasEngine takes parseFloat of the string
ClipRadius(engine, el) ==
    IF engine = "WebEngine" /\ el.style.unit = "%"
    THEN (Min2(el.rect.width, el.rect.height) * el.style.value) \div 100
    ELSE el.style.value

\* a plausible slip: an empty intersection keeps the clamped rectangle
IntersectNoCollapse(parentClip, myClip) ==
    LET x1 == Max2(parentClip.x, myClip.x)
        y1 == Max2(parentClip.y, myClip.y)
        x2 == Min2(parentClip.x + parentClip.width, myClip.x + myClip.width)
        y2 == Min2(parentClip.y + parentClip.height, myClip.y + myClip.height)
    IN Clip(x1, y1, Max2(x2 - x1, 0), myClip.height, myClip.radius)

\* "Intersect parent clip and my clip"
Intersect(parentClip, myClip) ==
    LET x1 == Max2(parentClip.x, myClip.x)
        y1 == Max2(parentClip.y, myClip.y)
        x2 == Min2(parentClip.x + parentClip.width, myClip.x + myClip.width)
        y2 == Min2(parentClip.y + parentClip.height, myClip.y + myClip.height)
    IN IF x2 > x1 /\ y2 > y1
       THEN Clip(x1, y1, x2 - x1, y2 - y1, myClip.radius)
       ELSE Clip(0, 0, 0, 0, 0)

\* "Calculate effective clip region": the local currentClip
currentClip(engine, el, parentClip) ==
    IF el.style.overflow \in {"hidden", "auto"}
    THEN LET myClip == Clip(el.rect.x, el.rect.y, el.rect.width, el.rect.height,
                            ClipRadius(engine, el))
         IN IF parentClip # Null THEN Intersect(parentClip, myClip) ELSE myClip
    ELSE parentClip

\* a plausible slip: the node stores the clip it computed for its children
NodeClipOwn(parentClip, ownClip) == ownClip

\* nodeData.clip ("Store inherited clip")
NodeClip(parentClip, ownClip) == parentClip

\* captureNode(element, ..., parentClip) up to the loop over the children
captureNode(engine, el, parentClip) ==
    [x |-> el.rect.x, y |-> el.rect.y, width |-> el.rect.width,
     height |-> el.rect.height, overflow |-> el.style.overflow,
     clip |-> NodeClip(parentClip, currentClip(engine, el, parentClip)),
     currentClip |-> currentClip(engine, el, parentClip)]

ClipInit ==
    /\ snapshotEngine \in Engines
    /\ captureStack = <<>>

ClipOff ==
    /\ snapshotEngine = "WebEngine"
    /\ captureStack = <<>>

\* capture(element): this.captureNode(element) on the root
CaptureRoot ==
    /\ captureStack = <<>>
    /\ \E el \in Elements :
          captureStack' = <<captureNode(snapshotEngine, el, Null)>>
    /\ UNCHANGED snapshotEngine

\* the loop over element.children: this.captureNode(child, ..., currentClip)
CaptureChild ==
    /\ captureStack # <<>>
    /\ Len(captureStack) < MaxDepth
    /\ \E el \in Elements :
          captureStack' = Append(captureStack,
              captureNode(snapshotEngine, el, captureStack[Len(captureStack)].currentClip))
    /\ UNCHANGED snapshotEngine

\* captureNode returns to its caller
CaptureReturn ==
    /\ captureStack # <<>>
    /\ captureStack' = SubSeq(captureStack, 1, Len(captureStack) - 1)
    /\ UNCHANGED snapshotEngine

ClipNext ==
    \/ CaptureRoot /\ UNCHANGED clipOthers
    \/ CaptureChild /\ UNCHANGED clipOthers
    \/ CaptureReturn /\ UNCHANGED clipOthers


(***************************************************************************)
(* Claims about clip regions, checked under SpecClip.                      *)
(***************************************************************************)
Clipping(n) == n.overflow \in {"hidden", "auto"}

\* the unit cells a rectangle or clip region covers
Cells(r) == {<<a, b>> : a \in r.x .. (r.x + r.width - 1),
                        b \in r.y .. (r.y + r.height - 1)}

\* C9: node.clip of every recorded node is the clip its parent passed down
\* (null for the root and for a node with no clipping ancestor); the node's
\* own overflow changes only the clip passed to its children.
C9_ClipIsInherited ==
    \A i \in DOMAIN captureStack :
        /\ captureStack[i].clip =
              (IF i = 1 THEN Null ELSE captureStack[i - 1].currentClip)
        /\ (\A j \in 1 .. (i - 1) : ~Clipping(captureStack[j])) =>
              captureStack[i].clip = Null

\* C9's case: a clipping node below a clipping parent whose own region
\* differs from the clip it inherited.
C9_Witness ==
    \E i \in DOMAIN captureStack :
        /\ i > 1
        /\ Clipping(captureStack[i]) /\ Clipping(captureStack[i - 1])
        /\ captureStack[i].clip # Null
        /\ captureStack[i].clip # captureStack[i].currentClip
        /\ captureStack[i].clip.width > 0

\* C10: the clip a clipping node passes to its children is the rectangle
\* intersection of the inherited clip and its own rectangle, contained in the
\* rectangle of every clipping ancestor; an intersection without positive
\* area is {0,0,0,0,radius 0}, and below it every descendant inherits a
\* zero-area clip whatever its own overflow and rectangle are.
C10_ClipIntersection ==
    \A i \in DOMAIN captureStack :
      LET n == captureStack[i] IN
        /\ (Clipping(n) /\ n.clip = Null) => Cells(n.currentClip) = Cells(n)
        /\ (Clipping(n) /\ n.clip # Null) =>
              /\ Cells(n.currentClip) = Cells(n.clip) \cap Cells(n)
              /\ Cells(n.clip) \cap Cells(n) = {} =>
                    n.currentClip = Clip(0, 0, 0, 0, 0)
        /\ \A j \in 1 .. i :
              (Clipping(captureStack[j]) /\ n.currentClip # Null) =>
                  Cells(n.currentClip) \subseteq Cells(captureStack[j])
        /\ \A j \in 1 .. (i - 1) :
              (captureStack[j].currentClip # Null /\ Cells(captureStack[j].currentClip) = {}) =>
                  /\ n.clip # Null /\ Cells(n.clip) = {}
                  /\ n.currentClip # Null /\ Cells(n.currentClip) = {}

\* C10's case: a clipping node whose rectangle misses the inherited clip, and a
\* clipping descendant with a rectangle of positive area below it.
C10_Witness ==
    /\ Len(captureStack) >= 3
    /\ Clipping(captureStack[1]) /\ Clipping(captureStack[2]) /\ Clipping(captureStack[3])
    /\ Cells(captureStack[1].currentClip) # {}
    /\ Cells(captureStack[2]) # {}
    /\ captureStack[2].currentClip = Clip(0, 0, 0, 0, 0)
    /\ Cells(captureStack[3]) # {}
    /\ captureStack[3].clip = Clip(0, 0, 0, 0, 0)
    /\ captureStack[3].currentClip = Clip(0, 0, 0, 0, 0)

(***************************************************************************)
(* CanvasStage: the render effect and its cancellation counter             *)
(*   src/canvasEngine/CanvasStage.jsx 58-207.  renderAll runs without      *)
(* interruption from the timer callback to its first await, and from the   *)
(* callback of fabric.Image.fromURL to the next await or to its end.       *)
(***************************************************************************)
\* the sections prop: each entry either is skipped by a continue (no
\* snapshot, or off the page) or is drawn as an image
SectionKinds == {"skip", "image"}

SectionLists == UNION {[1 .. n -> SectionKinds] : n \in 0 .. MaxSections}

\* the props a run of the effect closes over: shapes and lines on the page,
\* and the sections
StageProps == {[shapes |-> sh, lines |-> ln, sections |-> se] :
                  sh \in 0 .. 1, ln \in 0 .. 1, se \in SectionLists}

StageInit ==
    /\ renderInProgress = 0
    /\ renderPasses = <<>>
    /\ fabricCanvas = {}
    /\ isRendering = FALSE
    /\ renderCache = {}
    /\ staleOps = {}

StageOff == StageInit

\* currentRenderId !== renderInProgress.current
Stale(p) == renderPasses[p].currentRenderId # renderInProgress

\* the first section at or after index i that is drawn as an image, or 0
NextImage(p, i) ==
    LET S == {j \in i .. Len(renderPasses[p].props.sections) :
                 renderPasses[p].props.sections[j] = "image"}
    IN IF S = {} THEN 0 ELSE CHOOSE j \in S : \A k \in S : j <= k

\* renderAll of pass p from the top of the sections loop at index i, with the
\* canvas objects c and the isRendering state r: to the next await, to a
\* return, or through "4. Add Watermark", canvas.renderAll() and finally
RunSections(p, i, c, r) ==
    LET n == Len(renderPasses[p].props.sections)
        img == NextImage(p, i)
    IN IF i <= n /\ Stale(p)
       THEN \* the stale test at the top of the loop returns; finally does nothing
            [pc |-> "cancelled", index |-> i, canvas |-> c, rendering |-> r,
             cache |-> renderCache, ops |-> {}]
       ELSE IF i <= n /\ img # 0
       THEN \* up to await new Promise(... fabric.Image.fromURL ...)
            [pc |-> "loading", index |-> img, canvas |-> c, rendering |-> r,
             cache |-> renderCache \cup {img}, ops |-> {}]
       ELSE \* the loop is over: watermark, guarded renderAll, guarded finally
            [pc |-> "done", index |-> n + 1,
             canvas |-> c \cup {[kind |-> "watermark", pass |-> p, index |-> 0]},
             rendering |-> (IF Stale(p) THEN r ELSE FALSE),
             cache |-> renderCache,
             ops |-> (IF Stale(p) THEN {[pass |-> p, op |-> "watermark"]} ELSE {})]

\* the effect runs (mount, or a prop changed): the cleanup of the previous run
\* clears its timer, then ++renderInProgress.current and setTimeout(renderAll, 10)
RunEffect ==
    /\ Len(renderPasses) < MaxPasses
    /\ \E props \in StageProps :
          LET cleaned == [p \in DOMAIN renderPasses |->
                             IF renderPasses[p].pc = "timer"
                             THEN [renderPasses[p] EXCEPT !.pc = "cleared"]
                             ELSE renderPasses[p]]
          IN renderPasses' = Append(cleaned,
                 [currentRenderId |-> renderInProgress + 1, props |-> props,
                  pc |-> "timer", index |-> 0])
    /\ renderInProgress' = renderInProgress + 1
    /\ UNCHANGED <<fabricCanvas, isRendering, renderCache, staleOps>>

\* the timer fires: renderAll of pass p up to its first await
renderAll ==
    \E p \in DOMAIN renderPasses :
        /\ renderPasses[p].pc = "timer"
        /\ LET props == renderPasses[p].props
               shapes == {[kind |-> "shape", pass |-> p, index |-> k] : k \in 1 .. props.shapes}
               lines == {[kind |-> "line", pass |-> p, index |-> k] : k \in 1 .. props.lines}
               \* setIsRendering(true), canvas.clear(), then the three loops
               run == IF Stale(p) /\ props.shapes > 0
                      THEN [pc |-> "cancelled", index |-> 0, canvas |-> {}, rendering |-> TRUE,
                            cache |-> renderCache, ops |-> {}]
                      ELSE IF Stale(p) /\ props.lines > 0
                      THEN [pc |-> "cancelled", index |-> 0, canvas |-> shapes, rendering |-> TRUE,
                            cache |-> renderCache, ops |-> {}]
                      ELSE RunSections(p, 1, shapes \cup lines, TRUE)
           IN /\ renderPasses' = [renderPasses EXCEPT ![p].pc = run.pc, ![p].index = run.index]
              /\ fabricCanvas' = run.canvas
              /\ isRendering' = run.rendering
              /\ renderCache' = run.cache
              /\ staleOps' = staleOps \cup run.ops
        /\ UNCHANGED renderInProgress

\* the callback of fabric.Image.fromURL of pass p, then renderAll resumes
ImageLoaded ==
    \E p \in DOMAIN renderPasses :
        /\ renderPasses[p].pc = "loading"
        /\ LET img == [kind |-> "image", pass |-> p, index |-> renderPasses[p].index]
               added == IF Stale(p) THEN fabricCanvas ELSE fabricCanvas \cup {img}
               run == RunSections(p, renderPasses[p].index + 1, added, isRendering)
           IN /\ renderPasses' = [renderPasses EXCEPT ![p].pc = run.pc, ![p].index = run.index]
              /\ fabricCanvas' = run.canvas
              /\ isRendering' = run.rendering
              /\ renderCache' = run.cache
              /\ staleOps' = staleOps \cup run.ops
        /\ UNCHANGED renderInProgress

StageNext ==
    \/ RunEffect /\ UNCHANGED stageOthers
    \/ renderAll /\ UNCHANGED stageOthers
    \/ ImageLoaded /\ UNCHANGED stageOthers

(***************************************************************************)
(* Claims about CanvasStage, checked under SpecCanvasStage.                *)
(***************************************************************************)
\* C7: renderInProgress only grows and every pass has its own value of it;
\* once a newer pass has started, an older pass adds no shape, line, section
\* image or watermark to the canvas, does not call renderAll and does not
\* clear the isRendering flag.
C7_StalePassIsInert ==
    /\ \A p, q \in DOMAIN renderPasses :
          p < q => renderPasses[p].currentRenderId < renderPasses[q].currentRenderId
    /\ \A p \in DOMAIN renderPasses : renderPasses[p].currentRenderId <= renderInProgress
    /\ staleOps = {}

(***************************************************************************)
(* WebGLStage: the rendering effect and its isCancelled flag               *)
(*   src/engine/WebEngine.jsx 3059-3228.  render() runs without            *)
(* interruption from the effect to its first image load, and from the end  *)
(* of an image load to the next one or to its end: an await of a box or    *)
(* text node only yields to the microtask queue.                           *)
(***************************************************************************)
\* "single": snapshot.nodes is drawn node by node; "multi": one container per
\* section, filled by engine.render
GLModes == {"single", "multi"}

\* what engine.renderNode does for a node: a display object at once ("box"),
\* null ("none"), or a texture load ("image"); what engine.render does for a
\* section: no texture load ("box") or at least one ("image")
GLItemKinds(mode) == IF mode = "single" THEN {"box", "none", "image"} ELSE {"box", "image"}

GLProps == {[mode |-> m, items |-> it, shapes |-> sh, lines |-> ln] :
               m \in GLModes,
               it \in UNION {[1 .. n -> {"box", "none", "image"}] : n \in 0 .. MaxSections},
               sh \in 0 .. 1, ln \in 0 .. 1}

EmptyLayers == [background |-> {}, shapes |-> {}, sections |-> {}, lines |-> {}]

GLInit ==
    /\ glPasses = <<>>
    /\ layers = EmptyLayers

GLOff == GLInit

DisplayObject(p, i) == [pass |-> p, index |-> i]

\* "4. Lines" and the end of render(): every line is dropped when isCancelled
AddLines(passes, p, ls) ==
    IF passes[p].isCancelled THEN ls
    ELSE [ls EXCEPT !.lines = @ \cup {DisplayObject(p, k) : k \in 1 .. passes[p].props.lines}]

\* render() of pass p from item i of "3. Sections" with the layers ls, up to
\* the next texture load or to the end of render()
RunItems(passes, p, i, ls) ==
    LET items == passes[p].props.items
        n == Len(items)
        S == {j \in i .. n : items[j] = "image"}
        stop == IF S = {} THEN n + 1 ELSE CHOOSE j \in S : \A k \in S : j <= k
        \* single: the nodes before the load are added after their await;
        \* multi: the container of a section is added before its await
        added == IF passes[p].props.mode = "single"
                 THEN {DisplayObject(p, j) : j \in {k \in i .. (stop - 1) : items[k] = "box"}}
                 ELSE {DisplayObject(p, j) : j \in i .. Min2(stop, n)}
        withItems == [ls EXCEPT !.sections = @ \cup added]
    IN IF stop <= n
       THEN [pc |-> "awaiting", index |-> stop, layers |-> withItems]
       ELSE [pc |-> "done", index |-> n + 1, layers |-> AddLines(passes, p, withItems)]

\* the effect runs: the cleanup of the previous run sets its isCancelled, then
\* render() of the new run: surgical cleanup, background, shapes, sections
RunRenderEffect ==
    /\ Len(glPasses) < MaxPasses
    /\ \E props \in GLProps :
        /\ \A j \in DOMAIN props.items : props.items[j] \in GLItemKinds(props.mode)
        /\ LET p == Len(glPasses) + 1
               cancelled == [q \in DOMAIN glPasses |-> [glPasses[q] EXCEPT !.isCancelled = TRUE]]
               started == Append(cancelled, [isCancelled |-> FALSE, props |-> props,
                                            pc |-> "running", index |-> 0])
               cleaned == [EmptyLayers EXCEPT
                             !.background = {DisplayObject(p, 0)},
                             !.shapes = {DisplayObject(p, k) : k \in 1 .. props.shapes}]
               run == RunItems(started, p, 1, cleaned)
           IN /\ glPasses' = [started EXCEPT ![p].pc = run.pc, ![p].index = run.index]
              /\ layers' = run.layers

\* the texture load pass p awaits ends, with a display object or with null,
\* and render() of pass p resumes
TextureLoaded ==
    \E p \in DOMAIN glPasses : \E loaded \in BOOLEAN :
        /\ glPasses[p].pc = "awaiting"
        /\ LET i == glPasses[p].index
               \* single: if (displayObj) layers.current.sections.addChild(displayObj)
               after == IF glPasses[p].props.mode = "single" /\ loaded
                        THEN [layers EXCEPT !.sections = @ \cup {DisplayObject(p, i)}]
                        ELSE layers
               run == RunItems(glPasses, p, i + 1, after)
           IN /\ glPasses' = [glPasses EXCEPT ![p].pc = run.pc, ![p].index = run.index]
              /\ layers' = run.layers

GLNext ==
    \/ RunRenderEffect /\ UNCHANGED glOthers
    \/ TextureLoaded /\ UNCHANGED glOthers

(***************************************************************************)
(* Claims about WebGLStage, checked under SpecWebGLStage.                  *)
(***************************************************************************)
\* C8: once a second pass has started, no display object of the first pass is
\* added to a layer: whatever the layers hold was created by the latest pass,
\* also after both passes have finished.
C8_OnlyLatestPassOnLayers ==
    \A name \in DOMAIN layers : \A o \in layers[name] : o.pass = Len(glPasses)

(***************************************************************************)
(* GeometrySnapshot.capture: resolution of the styles and gradients        *)
(*   src/engine/WebEngine.jsx 79-149, 213-274, 490-585 (workers through    *)
(*   WorkerManager.execute, or a Worker for gradients);                    *)
(*   src/canvasEngine/CanvasEngine.jsx 70-128, 186-196, 330-365 (Workers). *)
(* The traversal is synchronous, so capture() up to its first await is one *)
(* step.  The element tree is a root with up to MaxChildren listed         *)
(* children and `more` further box children that are resolved like a       *)
(* listed box child.                                                       *)
(***************************************************************************)
WorkerKinds(engine) ==
    IF engine = "WebEngine"
    THEN {[style |-> st, gradient |-> g] : st \in {"none", "manager"},
                                           g \in {"none", "manager", "raw"}}
    ELSE {[style |-> st, gradient |-> g] : st \in {"none", "raw"}, g \in {"none", "raw"}}

\* a child element: a box, a box with a gradient background, a text element,
\* or an element with display none
ChildKinds == {"box", "gradbox", "text", "hidden"}

Trees == {[gradient |-> g, more |-> m, children |-> ch] :
             g \in BOOLEAN, m \in {0, BatchThreshold + 1},
             ch \in UNION {[1 .. n -> ChildKinds] : n \in 0 .. MaxChildren}}

CapInit ==
    /\ capEngine \in Engines
    /\ capWorkers \in WorkerKinds(capEngine)
    /\ capPc = "idle"
    /\ nodes = <<>>
    /\ stylePromises = <<>>
    /\ gradientPromises = <<>>
    /\ rawInbox = {}
    /\ rawHandler = 0
    /\ rawReady = (capWorkers.gradient = "raw")

CapOff ==
    /\ capEngine = "WebEngine"
    /\ capWorkers = [style |-> "none", gradient |-> "none"]
    /\ capPc = "idle"
    /\ nodes = <<>>
    /\ stylePromises = <<>>
    /\ gradientPromises = <<>>
    /\ rawInbox = {}
    /\ rawHandler = 0
    /\ rawReady = FALSE

\* options.useWorkers: !!options.styleWorker
UseWorkers(w) == w.style # "none"

IsVisible(kind) == kind # "hidden"

\* the elements captureNode records, root first
Recorded(tree) == <<IF tree.gradient THEN "gradbox" ELSE "box">> \o SelectSeq(tree.children, IsVisible)

\* WebEngine: the children of an element with more than BatchThreshold
\* children are batched for the style worker
Batched(tree, w, i) ==
    /\ UseWorkers(w)
    /\ i > 1
    /\ Len(tree.children) + tree.more > BatchThreshold

\* does the gradient of recorded element i go to the gradient worker
GradientDispatched(engine, tree, w, i) ==
    /\ Recorded(tree)[i] = "gradbox"
    /\ w.gradient # "none"
    /\ IF engine = "WebEngine" THEN ~Batched(tree, w, i) ELSE UseWorkers(w)

\* captureNode and extractStyles for recorded element i
NodeData(engine, tree, w, i) ==
    LET kind == Recorded(tree)[i] IN
    [type |-> (IF kind = "text" THEN "text" ELSE "box"),
     bgGradient |-> (kind = "gradbox"),
     batched |-> (engine = "WebEngine" /\ Batched(tree, w, i)),
     heavy |-> (IF engine = "WebEngine" /\ ~Batched(tree, w, i) THEN "inline" ELSE "none"),
     gradient |-> (IF kind = "gradbox" /\ ~GradientDispatched(engine, tree, w, i)
                      /\ ~(engine = "WebEngine" /\ Batched(tree, w, i))
                   THEN "inline" ELSE "none")]

\* the numbers of the set S in ascending order
Ascending(S) ==
    [k \in 1 .. Cardinality(S) |-> CHOOSE x \in S : Cardinality({y \in S : y < x}) = k - 1]

\* processStyleFromRaw / processBatchLocally on node n
ResolveLocally(n) ==
    [n EXCEPT !.heavy = "local",
              !.gradient = IF n.bgGradient /\ n.gradient = "none" THEN "local" ELSE @]

\* Object.assign(node.styles, style) with a style of the worker's processedBatch
ResolveByWorker(n) ==
    [n EXCEPT !.heavy = "worker",
              !.gradient = IF n.bgGradient THEN "worker" ELSE @]

AllDone(promises) == \A k \in DOMAIN promises : promises[k].state = "done"

\* capture() after an await, or after the traversal: the next await or return
AfterStyles(gps) == IF AllDone(gps) THEN "returned" ELSE "awaitGradients"

\* capture(element) up to its first await (or to its return)
capture ==
    /\ capPc = "idle"
    /\ \E tree \in Trees :
        LET w == capWorkers
            n == Len(Recorded(tree))
            captured == [i \in 1 .. n |-> NodeData(capEngine, tree, w, i)]
            gnodes == Ascending({i \in 1 .. n : GradientDispatched(capEngine, tree, w, i)})
            gps == [k \in DOMAIN gnodes |->
                       [node |-> gnodes[k], via |-> w.gradient, state |-> "pending"]]
            batch == capEngine = "WebEngine" /\ Batched(tree, w, 2)
            viaWorker == IF capEngine = "WebEngine" THEN batch ELSE UseWorkers(w)
        IN /\ gradientPromises' = gps
           /\ stylePromises' = IF viaWorker THEN <<[via |-> w.style, state |-> "pending"]>>
                               ELSE <<>>
           \* CanvasEngine without a style worker resolves pendingStyles here
           /\ nodes' = IF capEngine = "CanvasEngine" /\ ~viaWorker
                       THEN [i \in 1 .. n |-> ResolveLocally(captured[i])]
                       ELSE captured
           /\ rawInbox' = {[to |-> "gradient", promise |-> k] :
                              k \in {j \in DOMAIN gps : w.gradient = "raw"}}
                          \cup {[to |-> "style", promise |-> 1] :
                                   k \in {j \in {1} : viaWorker /\ w.style = "raw"}}
           \* WebEngine: every raw gradient task overwrites gradientWorker.onmessage
           /\ rawHandler' = IF capEngine = "WebEngine" /\ w.gradient = "raw"
                            THEN Len(gps) ELSE 0
           /\ capPc' = IF viaWorker THEN "awaitStyles" ELSE AfterStyles(gps)
    /\ UNCHANGED <<capEngine, capWorkers, rawReady>>

\* how a call of WorkerManager.execute ends: a response with the data, a
\* response without it, null (fallback mode), or a rejection (ERROR message,
\* timeout, worker error, postMessage failure)
ExecuteOutcomes == {"response", "empty", "null", "rejected"}

\* WebEngine: the style batch request settles and the async function of
\* captureNode assigns the worker's styles or runs processBatchLocally
StyleBatchSettles ==
    \E outcome \in ExecuteOutcomes :
        /\ capPc # "idle"
        /\ stylePromises # <<>>
        /\ stylePromises[1].via = "manager"
        /\ stylePromises[1].state = "pending"
        /\ stylePromises' = [stylePromises EXCEPT ![1].state = "done"]
        /\ nodes' = [i \in DOMAIN nodes |->
                        IF ~nodes[i].batched THEN nodes[i]
                        ELSE IF outcome = "response" THEN ResolveByWorker(nodes[i])
                        ELSE ResolveLocally(nodes[i])]
        /\ UNCHANGED <<capEngine, capWorkers, capPc, gradientPromises, rawInbox,
                       rawHandler, rawReady>>

\* WebEngine: a gradient request through WorkerManager.execute settles
GradientTaskSettles ==
    \E k \in DOMAIN gradientPromises : \E outcome \in ExecuteOutcomes :
        /\ gradientPromises[k].via = "manager"
        /\ gradientPromises[k].state = "pending"
        /\ gradientPromises' = [gradientPromises EXCEPT ![k].state = "done"]
        /\ nodes' = [nodes EXCEPT ![gradientPromises[k].node].gradient =
                        IF outcome = "response" THEN "worker" ELSE "local"]
        /\ UNCHANGED <<capEngine, capWorkers, capPc, stylePromises, rawInbox,
                       rawHandler, rawReady>>

\* a Worker handles a request and posts its answer, and the listener runs
RawWorkerAnswers ==
    \E req \in rawInbox : \E type \in {"answer", "ERROR"} :
        /\ rawInbox' = rawInbox \ {req}
        /\ IF req.to = "style"
           THEN \* CanvasEngine dispatchAllStyles; the style worker posts no ERROR
                /\ type = "answer"
                /\ nodes' = [i \in DOMAIN nodes |-> ResolveByWorker(nodes[i])]
                /\ stylePromises' = [stylePromises EXCEPT ![1].state = "done"]
                /\ UNCHANGED gradientPromises
           ELSE IF capEngine = "CanvasEngine"
           THEN \* dispatchGradientTask: only GRADIENT_PARSED with the id counts
                /\ IF type = "answer"
                   THEN /\ nodes' = [nodes EXCEPT
                               ![gradientPromises[req.promise].node].gradient = "worker"]
                        /\ gradientPromises' =
                               [gradientPromises EXCEPT ![req.promise].state = "done"]
                   ELSE UNCHANGED <<nodes, gradientPromises>>
                /\ UNCHANGED stylePromises
           ELSE \* WebEngine: the installed onmessage handler takes any message
                /\ nodes' = IF type = "answer"
                            THEN [nodes EXCEPT
                                    ![gradientPromises[rawHandler].node].gradient = "worker"]
                            ELSE nodes
                /\ gradientPromises' = [gradientPromises EXCEPT ![rawHandler].state = "done"]
                /\ UNCHANGED stylePromises
        /\ UNCHANGED <<capEngine, capWorkers, capPc, rawHandler, rawReady>>

\* the READY message the gradient worker script posts when it has loaded
RawWorkerReady ==
    /\ rawReady
    /\ rawReady' = FALSE
    /\ gradientPromises' = IF capEngine = "WebEngine" /\ rawHandler # 0
                           THEN [gradientPromises EXCEPT ![rawHandler].state = "done"]
                           ELSE gradientPromises
    /\ UNCHANGED <<capEngine, capWorkers, capPc, nodes, stylePromises, rawInbox, rawHandler>>

\* a Worker is terminated or throws before it answers a request
RawWorkerDrops ==
    \E req \in rawInbox :
        /\ rawInbox' = rawInbox \ {req}
        /\ UNCHANGED <<capEngine, capWorkers, capPc, nodes, stylePromises,
                       gradientPromises, rawHandler, rawReady>>

\* the promise capture() awaits is fulfilled and capture() goes on
captureResumes ==
    /\ \/ /\ capPc = "awaitStyles"
          /\ AllDone(stylePromises)
          /\ capPc' = AfterStyles(gradientPromises)
       \/ /\ capPc = "awaitGradients"
          /\ AllDone(gradientPromises)
          /\ capPc' = "returned"
    /\ UNCHANGED <<capEngine, capWorkers, nodes, stylePromises, gradientPromises,
                   rawInbox, rawHandler, rawReady>>

CapNext ==
    \/ capture /\ UNCHANGED capOthers
    \/ StyleBatchSettles /\ UNCHANGED capOthers
    \/ GradientTaskSettles /\ UNCHANGED capOthers
    \/ RawWorkerAnswers /\ UNCHANGED capOthers
    \/ RawWorkerReady /\ UNCHANGED capOthers
    \/ RawWorkerDrops /\ UNCHANGED capOthers
    \/ captureResumes /\ UNCHANGED capOthers

(***************************************************************************)
(* Claims about capture(), checked under SpecCapture.                      *)
(***************************************************************************)
\* C1: when capture() of the WebEngine GeometrySnapshot has returned, every
\* node has its heavy style fields, and its gradient when its background
\* image is a gradient, however the node was resolved.
C1_ReturnedNodesResolved ==
    (capEngine = "WebEngine" /\ capPc = "returned") =>
        \A i \in DOMAIN nodes :
            /\ nodes[i].heavy # "none"
            /\ nodes[i].bgGradient => nodes[i].gradient # "none"

\* C2: a capture that waits for a worker is never left with nothing that can
\* end the wait: a worker that does not answer, answers with an error or is
\* unavailable leads to the timeout and the local parser, so capture() goes
\* on to return.
C2_CaptureNeverStuck ==
    capPc \in {"awaitStyles", "awaitGradients"} =>
        ENABLED (StyleBatchSettles \/ GradientTaskSettles \/ RawWorkerAnswers
                 \/ RawWorkerReady \/ RawWorkerDrops \/ captureResumes)

(***************************************************************************)
(* Paint order of a snapshot                                               *)
(*   src/engine/WebEngine.jsx 207, 495 (the two zIndex fields), 744-750,   *)
(*   1062-1076, 3183-3189; src/canvasEngine/CanvasEngine.jsx 171, 184,     *)
(*   1411-1416.  A JavaScript number is a record: NaN, or a value.         *)
(***************************************************************************)
NaN == [nan |-> TRUE, v |-> 0]

Num(v) == [nan |-> FALSE, v |-> v]

\* computed.zIndex of an element
ZIndexStrings == {"auto", "", "-1", "0", "1"}

\* parseInt on the strings above
parseInt(str) ==
    IF str = "-1" THEN Num(-1)
    ELSE IF str = "0" THEN Num(0)
    ELSE IF str = "1" THEN Num(1)
    ELSE NaN

\* n || 0 on a number
OrZero(n) == IF n.nan \/ n.v = 0 THEN 0 ELSE n.v

\* the two zIndex fields captureNode and extractStyles give a node; id is the
\* place of the node in snapshot.nodes
ZNode(id, str) ==
    [id |-> id,
     zIndex |-> Num(OrZero(parseInt(str))),
     styles |-> [zIndex |-> IF str # "auto" THEN parseInt(str) ELSE Num(0)]]

\* the renderer entry points and the field their comparator reads
EntryPoints == {"renderToCanvas", "renderSnapshot", "PixiRendererEngine.render", "WebGLStage"}

SortKey(entry, n) ==
    IF entry = "PixiRendererEngine.render" THEN OrZero(n.styles.zIndex) ELSE OrZero(n.zIndex)

\* a sort that puts a node before the nodes of equal key
SortInsertBefore(entry, sorted, n) ==
    LET k == Cardinality({i \in DOMAIN sorted : SortKey(entry, sorted[i]) < SortKey(entry, n)})
    IN SubSeq(sorted, 1, k) \o <<n>> \o SubSeq(sorted, k + 1, Len(sorted))

\* Array.prototype.sort is stable: a node goes behind the nodes whose
\* comparison with it is not positive
SortInsert(entry, sorted, n) ==
    LET k == Cardinality({i \in DOMAIN sorted : SortKey(entry, sorted[i]) <= SortKey(entry, n)})
    IN SubSeq(sorted, 1, k) \o <<n>> \o SubSeq(sorted, k + 1, Len(sorted))

RECURSIVE SortedNodes(_, _)
\* [...nodes].sort((a, b) => key(a) - key(b))
SortedNodes(entry, ns) ==
    IF ns = <<>> THEN <<>>
    ELSE SortInsert(entry, SortedNodes(entry, SubSeq(ns, 1, Len(ns) - 1)), ns[Len(ns)])

PaintInit ==
    /\ paintNodes = <<>>
    /\ paintOrder = [e \in EntryPoints |-> <<>>]

PaintOff == PaintInit

\* captureNode records one more node
CaptureZNode ==
    /\ Len(paintNodes) < MaxPaintNodes
    /\ \A e \in EntryPoints : paintOrder[e] = <<>>
    /\ \E str \in ZIndexStrings :
          paintNodes' = Append(paintNodes, ZNode(Len(paintNodes) + 1, str))
    /\ UNCHANGED paintOrder

\* an entry point sorts the nodes and paints them one after the other
Paint(entry) ==
    /\ paintNodes # <<>>
    /\ paintOrder[entry] = <<>>
    /\ LET sorted == SortedNodes(entry, paintNodes)
       IN paintOrder' = [paintOrder EXCEPT ![entry] = [i \in DOMAIN sorted |-> sorted[i].id]]
    /\ UNCHANGED paintNodes

PaintNext ==
    \/ CaptureZNode /\ UNCHANGED paintOthers
    \/ Paint("renderToCanvas") /\ UNCHANGED paintOthers
    \/ Paint("renderSnapshot") /\ UNCHANGED paintOthers
    \/ Paint("PixiRendererEngine.render") /\ UNCHANGED paintOthers
    \/ Paint("WebGLStage") /\ UNCHANGED paintOthers

LayoutEngines == {"CanvasEngine", "WebEngine"}

Phases == {"measure", "layout", "render"}

\* the node classes; a BlockNode may have both width and height in its props
NodeOptions ==
    {[kind |-> k, sized |-> FALSE] : k \in {"FlexNode", "GridNode", "BlockNode", "TextNode"}}
        \cup {[kind |-> "BlockNode", sized |-> TRUE]}

\* LayoutNode's constructor: the children of a node, each linked to its parent;
\* node 1 is the root, and a TextNode has no children ("super(props, [])")
ParentMaps(n) ==
    {p \in [1..n -> 0..n] : p[1] = 0 /\ \A i \in 2..n : p[i] \in 1..(i - 1)}

LayoutTrees ==
    UNION {{[node |-> k, parent |-> p] : k \in [1..n -> NodeOptions], p \in ParentMaps(n)}
              : n \in 1..MaxLayoutNodes}

WellFormedTree(t) ==
    \A i \in DOMAIN t.parent :
        t.parent[i] # 0 => t.node[t.parent[i]].kind # "TextNode"

\* this.children of a node, in order
RECURSIVE ChildrenFrom(_, _, _)
ChildrenFrom(t, n, i) ==
    IF i > Len(t.parent) THEN <<>>
    ELSE IF t.parent[i] = n THEN <<i>> \o ChildrenFrom(t, n, i + 1)
    ELSE ChildrenFrom(t, n, i + 1)

children(t, n) == ChildrenFrom(t, n, 1)

\* does the method of the phase go through this.children of node n?
\* BlockNode.measure returns before that when width and height are given.
VisitsChildren(t, n, phase) ==
    IF phase = "measure"
    THEN ~(t.node[n].kind = "BlockNode" /\ t.node[n].sized)
    ELSE TRUE

\* measure() of node n assigns this.intrinsicSize
SetsOwnSize(t, n) ==
    CASE t.node[n].kind = "TextNode" -> TRUE
      [] t.node[n].kind = "GridNode" -> TRUE
      [] t.node[n].kind = "FlexNode" -> children(t, n) # <<>>
      [] t.node[n].kind = "BlockNode" -> ~t.node[n].sized /\ children(t, n) # <<>>

\* FlexNode.calculateFlexSizes reads child.intrinsicSize[mainAxis] of every
\* child (no child has a flexBasis here): a TypeError when it is still null
calculateFlexSizesThrows(t, n, sizes) ==
    /\ t.node[n].kind = "FlexNode"
    /\ \E i \in DOMAIN children(t, n) : children(t, n)[i] \notin sizes

NoCalls == [p \in Phases |-> [n \in 1..MaxLayoutNodes |-> 0]]

LayoutInit ==
    /\ layoutEngine = "none"
    /\ layoutTree = Null
    /\ layoutPc = "idle"
    /\ callStack = <<>>
    /\ intrinsicSize = {}
    /\ phaseCalls = NoCalls
    /\ phaseReturns = NoCalls

LayoutOff == LayoutInit

\* a method of the phase is called on node n
CallOn(n, phase, stack) ==
    /\ callStack' = Append(stack, [node |-> n, phase |-> phase, i |-> 1])
    /\ phaseCalls' = [phaseCalls EXCEPT ![phase][n] = @ + 1]

\* renderLayoutTree(rootNode, bounds) up to its first call on the root:
\* rootNode.measure in canvasEngine/CanvasEngine.jsx, rootNode.layout in
\* engine/WebEngine.jsx
renderLayoutTree ==
    /\ layoutPc = "idle"
    /\ \E e \in LayoutEngines, t \in LayoutTrees :
          /\ WellFormedTree(t)
          /\ layoutEngine' = e
          /\ layoutTree' = t
          /\ layoutPc' = IF e = "CanvasEngine" THEN "measure" ELSE "layout"
          /\ CallOn(1, IF e = "CanvasEngine" THEN "measure" ELSE "layout", <<>>)
    /\ UNCHANGED <<intrinsicSize, phaseReturns>>

\* the call on the root has returned: renderLayoutTree makes its next call,
\* or returns
renderLayoutTreeContinues ==
    /\ layoutPc \in Phases
    /\ callStack = <<>>
    /\ IF layoutPc = "render"
       THEN /\ layoutPc' = "done"
            /\ UNCHANGED <<callStack, phaseCalls>>
       ELSE /\ layoutPc' = IF layoutPc = "measure" THEN "layout" ELSE "render"
            /\ CallOn(1, layoutPc', <<>>)
    /\ UNCHANGED <<layoutEngine, layoutTree, intrinsicSize, phaseReturns>>

\* the running method calls the same method on its next child
CallsNextChild(f) ==
    /\ callStack' = Append([callStack EXCEPT ![Len(callStack)].i = @ + 1],
                           [node |-> children(layoutTree, f.node)[f.i],
                            phase |-> f.phase, i |-> 1])
    /\ phaseCalls' = [phaseCalls EXCEPT ![f.phase][children(layoutTree, f.node)[f.i]] = @ + 1]
    /\ UNCHANGED phaseReturns

\* the running method returns to its caller
Returns(f) ==
    /\ callStack' = SubSeq(callStack, 1, Len(callStack) - 1)
    /\ phaseReturns' = [phaseReturns EXCEPT ![f.phase][f.node] = @ + 1]
    /\ UNCHANGED phaseCalls

HasNextChild(f) ==
    /\ VisitsChildren(layoutTree, f.node, f.phase)
    /\ f.i <= Len(children(layoutTree, f.node))

\* one step of the measure() on top of the stack: "child.measure(...)" for
\* the next child, or the return; the caller assigns child.intrinsicSize
measure ==
    /\ callStack # <<>>
    /\ LET f == callStack[Len(callStack)]
       IN /\ f.phase = "measure"
          /\ IF HasNextChild(f)
             THEN CallsNextChild(f) /\ UNCHANGED intrinsicSize
             ELSE /\ Returns(f)
                  /\ intrinsicSize' =
                        IF SetsOwnSize(layoutTree, f.node) \/ Len(callStack) > 1
                        THEN intrinsicSize \cup {f.node}
                        ELSE intrinsicSize
    /\ UNCHANGED <<layoutEngine, layoutTree, layoutPc>>

\* one step of the layout() on top of the stack; a FlexNode with children
\* computes its flex sizes before it lays out its first child, and the
\* TypeError of that leaves every layout() on the stack and renderLayoutTree
layout ==
    /\ callStack # <<>>
    /\ LET f == callStack[Len(callStack)]
       IN /\ f.phase = "layout"
          /\ IF f.i = 1 /\ calculateFlexSizesThrows(layoutTree, f.node, intrinsicSize)
             THEN /\ callStack' = <<>>
                  /\ layoutPc' = "threw"
                  /\ UNCHANGED <<phaseCalls, phaseReturns>>
             ELSE /\ IF HasNextChild(f) THEN CallsNextChild(f) ELSE Returns(f)
                  /\ UNCHANGED layoutPc
    /\ UNCHANGED <<layoutEngine, layoutTree, intrinsicSize>>

\* one step of the render() on top of the stack
render ==
    /\ callStack # <<>>
    /\ LET f == callStack[Len(callStack)]
       IN /\ f.phase = "render"
          /\ IF HasNextChild(f) THEN CallsNextChild(f) ELSE Returns(f)
    /\ UNCHANGED <<layoutEngine, layoutTree, layoutPc, intrinsicSize>>

LayoutNext ==
    \/ renderLayoutTree /\ UNCHANGED layoutOthers
    \/ renderLayoutTreeContinues /\ UNCHANGED layoutOthers
    \/ measure /\ UNCHANGED layoutOthers
    \/ layout /\ UNCHANGED layoutOthers
    \/ render /\ UNCHANGED layoutOthers

(***************************************************************************)
(* Claims about the layout pass, checked under SpecLayoutTree.             *)
(***************************************************************************)
\* C12: when renderLayoutTree has returned, every node of the tree has had
\* measure, layout and render called exactly once; no node's layout is called
\* before its measure has returned, and no node's render is called before its
\* layout has returned; in both copies of the engine.
C12_ThreePhasesOncePerNode ==
    layoutTree # Null =>
       /\ layoutPc = "done" =>
             \A n \in DOMAIN layoutTree.node, p \in Phases : phaseCalls[p][n] = 1
       /\ \A n \in DOMAIN layoutTree.node :
             /\ phaseCalls["layout"][n] > 0 => phaseReturns["measure"][n] > 0
             /\ phaseCalls["render"][n] > 0 => phaseReturns["layout"][n] > 0

\* C26: after measure() has returned on the root, every other node of the tree
\* has been measured once and has an intrinsicSize, whatever the width and
\* height props of its ancestors; so no layout() reads the intrinsicSize of a
\* node that was not measured.
C26_EveryNodeMeasuredAfterRootMeasure ==
    (layoutTree # Null /\ phaseReturns["measure"][1] > 0) =>
       /\ \A n \in DOMAIN layoutTree.node \ {1} :
             /\ phaseCalls["measure"][n] = 1
             /\ n \in intrinsicSize
       /\ layoutPc # "threw"

(***************************************************************************)
(* FlexNode.layout: calculateFlexSizes and calculateMainAxisPositions.     *)
(* The two copies of FlexNode are the same text.  Sizes and positions are  *)
(* JavaScript numbers; the model computes them as fractions n/d in lowest  *)
(* terms, so a division is the exact quotient.                             *)
(***************************************************************************)
Abs(x) == IF x < 0 THEN -x ELSE x

RECURSIVE GCD(_, _)
GCD(a, b) == IF b = 0 THEN a ELSE GCD(b, a % b)

\* the number n/d, d # 0
Frac(n, d) ==
    LET g == GCD(Abs(n), Abs(d))
        s == IF d < 0 THEN -1 ELSE 1
    IN [n |-> (s * n) \div g, d |-> (s * d) \div g]

Whole(i) == [n |-> i, d |-> 1]

Plus(a, b) == Frac(a.n * b.d + b.n * a.d, a.d * b.d)

Minus(a, b) == Frac(a.n * b.d - b.n * a.d, a.d * b.d)

Times(a, b) == Frac(a.n * b.n, a.d * b.d)

\* a / b, b # 0
Over(a, b) == Frac(a.n * b.d, a.d * b.n)

Less(a, b) == a.n * b.d < b.n * a.d

\* Math.max(a, b)
MathMax(a, b) == IF Less(a, b) THEN b ELSE a

\* sizes.reduce((sum, s) => sum + s, 0)
RECURSIVE SumOf(_)
SumOf(s) == IF s = <<>> THEN Whole(0) ELSE Plus(SumOf(SubSeq(s, 1, Len(s) - 1)), s[Len(s)])

\* the values of the props flexGrow, flexShrink and flexBasis of a child, and
\* the tracks of a grid template; parseFloat below also reads the lengths of
\* a computed style and the angle of a gradient
FlexProps == {"undefined", "auto", "0", "1", "2", "20px", "50%", "0fr", "1fr", "2fr"}

\* parseFloat on the values above
parseFloat(str) ==
    CASE str = "0" -> Num(0)
      [] str = "1" -> Num(1)
      [] str = "2" -> Num(2)
      [] str = "20px" -> Num(20)
      [] str = "50%" -> Num(50)
      [] str = "0px" -> Num(0)
      [] str = "1px" -> Num(1)
      [] str = "16px" -> Num(16)
      [] str = "0deg" -> Num(0)
      [] str = "90deg" -> Num(90)
      [] str = "0fr" -> Num(0)
      [] str = "1fr" -> Num(1)
      [] str = "2fr" -> Num(2)
      [] OTHER -> NaN

\* n || 1 on a number
OrOne(n) == IF n.nan \/ n.v = 0 THEN 1 ELSE n.v

\* parseSize(value, base) on the values above
parseSize(value, base) ==
    CASE value = "undefined" -> Whole(0)
      [] value = "20px" -> Whole(parseFloat(value).v)
      [] value = "50%" -> Times(Frac(parseFloat(value).v, 100), Whole(base))
      [] value = "auto" -> Whole(0)
      [] OTHER -> Whole(OrZero(parseFloat(value)))

\* the children a FlexNode may have: the intrinsic main-axis size measure()
\* gave the child, and its flex props
FlexChildOptions ==
    {[intrinsicSize |-> 10, flexBasis |-> "undefined", flexGrow |-> g, flexShrink |-> "undefined"]
        : g \in {"undefined", "0", "1", "2"}}
    \cup {[intrinsicSize |-> 40, flexBasis |-> b, flexGrow |-> "undefined", flexShrink |-> "undefined"]
             : b \in {"auto", "50%"}}
    \cup {[intrinsicSize |-> 40, flexBasis |-> "20px", flexGrow |-> "1", flexShrink |-> s]
             : s \in {"0", "2"}}

\* contentBox[mainAxis] and the gap prop of the container
AvailableSpaces == {20, 120}

Gaps == {0, 10}

JustifyContents ==
    {"flex-start", "flex-end", "center", "space-between", "space-around", "space-evenly"}

\* "Step 1: Calculate base sizes (flex-basis or intrinsic)"
BaseSize(child, availableSpace) ==
    IF child.flexBasis # "undefined" /\ child.flexBasis # "auto"
    THEN parseSize(child.flexBasis, availableSpace)
    ELSE Whole(child.intrinsicSize)

BaseSizes(kids, availableSpace) ==
    [i \in DOMAIN kids |-> BaseSize(kids[i], availableSpace)]

\* parseFloat(child.props.flexGrow) || 0
FlexGrow(child) == OrZero(parseFloat(child.flexGrow))

\* parseFloat(child.props.flexShrink) || 1
FlexShrink(child) == OrOne(parseFloat(child.flexShrink))

RECURSIVE TotalGrow(_)
TotalGrow(kids) ==
    IF kids = <<>> THEN 0
    ELSE TotalGrow(SubSeq(kids, 1, Len(kids) - 1)) + FlexGrow(kids[Len(kids)])

RECURSIVE TotalShrink(_)
TotalShrink(kids) ==
    IF kids = <<>> THEN 0
    ELSE TotalShrink(SubSeq(kids, 1, Len(kids) - 1)) + FlexShrink(kids[Len(kids)])

\* availableSpace - totalGap - totalBaseSize
RemainingSpace(kids, availableSpace, gap) ==
    Minus(Whole(availableSpace - gap * (Len(kids) - 1)),
          SumOf(BaseSizes(kids, availableSpace)))

\* calculateFlexSizes without the gaps taken off the space to distribute
calculateFlexSizesNoGap(kids, availableSpace, gap) ==
    LET baseSizes == BaseSizes(kids, availableSpace)
        remainingSpace == RemainingSpace(kids, availableSpace, 0)
    IN IF Less(Whole(0), remainingSpace) /\ TotalGrow(kids) > 0
       THEN [i \in DOMAIN kids |->
                Plus(baseSizes[i],
                     Over(Times(remainingSpace, Whole(FlexGrow(kids[i]))),
                          Whole(TotalGrow(kids))))]
       ELSE baseSizes

calculateFlexSizes(kids, availableSpace, gap) ==
    LET baseSizes == BaseSizes(kids, availableSpace)
        remainingSpace == RemainingSpace(kids, availableSpace, gap)
    IN IF Less(Whole(0), remainingSpace)
       THEN IF TotalGrow(kids) > 0
            THEN [i \in DOMAIN kids |->
                     Plus(baseSizes[i],
                          Over(Times(remainingSpace, Whole(FlexGrow(kids[i]))),
                               Whole(TotalGrow(kids))))]
            ELSE baseSizes
       ELSE IF Less(remainingSpace, Whole(0))
       THEN IF TotalShrink(kids) > 0
            THEN [i \in DOMAIN kids |->
                     MathMax(Whole(0),
                             Minus(baseSizes[i],
                                   Over(Times(Whole(0 - 1), Times(remainingSpace, Whole(FlexShrink(kids[i])))),
                                        Whole(TotalShrink(kids)))))]
            ELSE baseSizes
       ELSE baseSizes

\* availableSpace - totalSize - totalGap
FreeSpace(sizes, availableSpace, gap) ==
    Minus(Whole(availableSpace - gap * (Len(sizes) - 1)), SumOf(sizes))

\* currentPos after the switch on justifyContent
StartPos(sizes, justifyContent, freeSpace) ==
    CASE justifyContent = "flex-end" -> freeSpace
      [] justifyContent = "center" -> Over(freeSpace, Whole(2))
      [] justifyContent = "space-around" -> Over(freeSpace, Whole(Len(sizes) * 2))
      [] justifyContent = "space-evenly" -> Over(freeSpace, Whole(Len(sizes) + 1))
      [] OTHER -> Whole(0)

\* the spacing with space-between falling through to the plain gap
SpacingGapOnly(sizes, justifyContent, freeSpace, gap) ==
    IF justifyContent = "space-around"
    THEN Plus(Whole(gap), Over(freeSpace, Whole(Len(sizes))))
    ELSE IF justifyContent = "space-evenly"
    THEN Plus(Whole(gap), Over(freeSpace, Whole(Len(sizes) + 1)))
    ELSE Whole(gap)

\* what currentPos grows by after a child that is not the last one
Spacing(sizes, justifyContent, freeSpace, gap) ==
    IF justifyContent = "space-between" /\ Len(sizes) > 1
    THEN Plus(Whole(gap), Over(freeSpace, Whole(Len(sizes) - 1)))
    ELSE IF justifyContent = "space-around"
    THEN Plus(Whole(gap), Over(freeSpace, Whole(Len(sizes))))
    ELSE IF justifyContent = "space-evenly"
    THEN Plus(Whole(gap), Over(freeSpace, Whole(Len(sizes) + 1)))
    ELSE Whole(gap)

\* currentPos when child i is pushed in the sizes.forEach loop
RECURSIVE CurrentPos(_, _, _, _, _)
CurrentPos(i, sizes, justifyContent, freeSpace, gap) ==
    IF i = 1 THEN StartPos(sizes, justifyContent, freeSpace)
    ELSE Plus(Plus(CurrentPos(i - 1, sizes, justifyContent, freeSpace, gap), sizes[i - 1]),
              Spacing(sizes, justifyContent, freeSpace, gap))

calculateMainAxisPositions(sizes, justifyContent, availableSpace, gap) ==
    [i \in DOMAIN sizes |->
        CurrentPos(i, sizes, justifyContent, FreeSpace(sizes, availableSpace, gap), gap)]

FlexInit ==
    /\ flexChildren = <<>>
    /\ flexResult = Null

FlexOff == FlexInit

\* new FlexNode(props, children): one more child in this.children
AddFlexChild ==
    /\ flexResult = Null
    /\ Len(flexChildren) < MaxFlexChildren
    /\ \E c \in FlexChildOptions : flexChildren' = Append(flexChildren, c)
    /\ UNCHANGED flexResult

\* FlexNode.layout(bounds) of a measured node with children: the sizes and the
\* main-axis positions its children are laid out with
FlexLayout ==
    /\ flexResult = Null
    /\ flexChildren # <<>>
    /\ \E availableSpace \in AvailableSpaces, gap \in Gaps, justifyContent \in JustifyContents :
          LET sizes == calculateFlexSizes(flexChildren, availableSpace, gap)
          IN flexResult' =
                [availableSpace |-> availableSpace,
                 gap |-> gap,
                 justifyContent |-> justifyContent,
                 sizes |-> sizes,
                 positions |-> calculateMainAxisPositions(sizes, justifyContent, availableSpace, gap)]
    /\ UNCHANGED flexChildren

FlexNext ==
    \/ AddFlexChild /\ UNCHANGED flexOthers
    \/ FlexLayout /\ UNCHANGED flexOthers

(***************************************************************************)
(* Claims about the flex layout, checked under SpecFlex.                   *)
(***************************************************************************)
\* C13: with positive remaining space R and a positive sum G of the flexGrow
\* weights, child i gets base_i + R * grow_i / G; a child with flexGrow 0 keeps
\* its base size; the sizes plus the gaps sum to the available space; three
\* children with flexGrow 0, 2, 1 and R = 90 grow by 0, 60 and 30.
C13_GrowthProportionalToFlexGrow ==
    flexResult # Null =>
       LET kids == flexChildren
           A == flexResult.availableSpace
           base == BaseSizes(kids, A)
           R == RemainingSpace(kids, A, flexResult.gap)
           G == TotalGrow(kids)
           sizes == flexResult.sizes
       IN (Less(Whole(0), R) /\ G > 0) =>
             /\ \A i \in DOMAIN kids :
                   /\ Times(Minus(sizes[i], base[i]), Whole(G)) = Times(R, Whole(FlexGrow(kids[i])))
                   /\ FlexGrow(kids[i]) = 0 => sizes[i] = base[i]
             /\ Plus(SumOf(sizes), Whole(flexResult.gap * (Len(kids) - 1))) = Whole(A)
             /\ (/\ Len(kids) = 3
                 /\ [i \in 1..3 |-> FlexGrow(kids[i])] = <<0, 2, 1>>
                 /\ R = Whole(90))
                   => [i \in 1..3 |-> Minus(sizes[i], base[i])] = <<Whole(0), Whole(60), Whole(30)>>

\* C13's case: three children with flexGrow 0, 2 and 1 and 90 to distribute
C13_Witness ==
    /\ flexResult # Null
    /\ Len(flexChildren) = 3
    /\ [i \in 1..3 |-> FlexGrow(flexChildren[i])] = <<0, 2, 1>>
    /\ RemainingSpace(flexChildren, flexResult.availableSpace, flexResult.gap) = Whole(90)
    /\ flexResult.sizes[2] = Plus(BaseSize(flexChildren[2], flexResult.availableSpace), Whole(60))

\* C14: with justifyContent space-between and N >= 2 children the first child
\* is at 0, each of the N-1 spaces between consecutive children is
\* gap + freeSpace/(N-1), and the last child ends at the main-axis size of the
\* content box.
C14_SpaceBetween ==
    (flexResult # Null /\ flexResult.justifyContent = "space-between" /\ Len(flexChildren) >= 2) =>
       LET N == Len(flexChildren)
           sizes == flexResult.sizes
           positions == flexResult.positions
           freeSpace == FreeSpace(sizes, flexResult.availableSpace, flexResult.gap)
       IN /\ positions[1] = Whole(0)
          /\ \A i \in 1..(N - 1) :
                Minus(positions[i + 1], Plus(positions[i], sizes[i]))
                   = Plus(Whole(flexResult.gap), Over(freeSpace, Whole(N - 1)))
          /\ Plus(positions[N], sizes[N]) = Whole(flexResult.availableSpace)

\* C14's case: three children of different sizes, space-between, a gap and
\* free space left to distribute
C14_Witness ==
    /\ flexResult # Null
    /\ flexResult.justifyContent = "space-between"
    /\ Len(flexChildren) = 3
    /\ Less(Whole(0), FreeSpace(flexResult.sizes, flexResult.availableSpace, flexResult.gap))
    /\ flexResult.gap > 0
    /\ flexResult.sizes[1] # flexResult.sizes[2]

\* the flexShrink weight as C22 reads it: an absent flexShrink counts as 1, a
\* flexShrink of 0 as 0
ShrinkWeight(child) ==
    IF child.flexShrink = "undefined" THEN 1 ELSE OrZero(parseFloat(child.flexShrink))

RECURSIVE TotalShrinkWeight(_)
TotalShrinkWeight(kids) ==
    IF kids = <<>> THEN 0
    ELSE TotalShrinkWeight(SubSeq(kids, 1, Len(kids) - 1)) + ShrinkWeight(kids[Len(kids)])

\* C22: with negative remaining space of magnitude D, child i is reduced by
\* D * shrink_i / S, S being the sum of the flexShrink weights, and is floored
\* at 0; a child with flexShrink 0 keeps its base size and a child without
\* flexShrink counts as 1; no size is below 0.
C22_ShrinkProportionalToFlexShrink ==
    flexResult # Null =>
       LET kids == flexChildren
           A == flexResult.availableSpace
           base == BaseSizes(kids, A)
           R == RemainingSpace(kids, A, flexResult.gap)
           D == Minus(Whole(0), R)
           S == TotalShrinkWeight(kids)
           sizes == flexResult.sizes
       IN Less(R, Whole(0)) =>
             \A i \in DOMAIN kids :
                /\ ~Less(sizes[i], Whole(0))
                /\ ShrinkWeight(kids[i]) = 0 => sizes[i] = base[i]
                /\ S > 0 =>
                      sizes[i] = MathMax(Whole(0),
                                         Minus(base[i],
                                               Over(Times(D, Whole(ShrinkWeight(kids[i]))),
                                                    Whole(S))))

(***************************************************************************)
(* GridNode.resolveGridTracks (the two copies are the same text), with the *)
(* exact fractions of the flex model.                                      *)
(***************************************************************************)
\* the entries of gridTemplateColumns and gridTemplateRows
TrackValues == {"0fr", "1fr", "2fr", "auto", "20px"}

\* String(track).endsWith('fr')
IsFr(track) == track \in {"0fr", "1fr", "2fr"}

\* resolveGridTracks with totalGap given: step 1 sizes the fixed and auto
\* tracks (an fr track gets 0), step 2 gives the fr tracks frUnit * value when
\* totalFr and the remaining space are positive
ResolveTracks(tracks, availableSpace, totalGap) ==
    LET fixed == [i \in DOMAIN tracks |->
                     IF IsFr(tracks[i]) THEN Whole(0)
                     ELSE IF tracks[i] = "auto" THEN Whole(AutoTrackSize)
                     ELSE parseSize(tracks[i], availableSpace)]
        remaining == Minus(Whole(availableSpace - totalGap), SumOf(fixed))
        totalFr == SumOf([i \in DOMAIN tracks |->
                             IF IsFr(tracks[i]) THEN Whole(parseFloat(tracks[i]).v) ELSE Whole(0)])
    IN IF Less(Whole(0), totalFr) /\ Less(Whole(0), remaining)
       THEN [i \in DOMAIN tracks |->
                IF IsFr(tracks[i])
                THEN Times(Over(remaining, totalFr), Whole(parseFloat(tracks[i]).v))
                ELSE fixed[i]]
       ELSE fixed

\* resolveGridTracks without the gaps taken off the space to distribute
resolveGridTracksNoGap(tracks, availableSpace, gap) ==
    ResolveTracks(tracks, availableSpace, 0)

resolveGridTracks(tracks, availableSpace, gap) ==
    ResolveTracks(tracks, availableSpace, gap * (Len(tracks) - 1))

GridInit ==
    /\ gridTracks = <<>>
    /\ gridResult = Null

GridOff == GridInit

\* one more entry in the template of the GridNode
AddTrack ==
    /\ gridResult = Null
    /\ Len(gridTracks) < MaxTracks
    /\ \E t \in TrackValues : gridTracks' = Append(gridTracks, t)
    /\ UNCHANGED gridResult

\* GridNode.layout resolves the tracks of one axis
ResolveGridTracks ==
    /\ gridResult = Null
    /\ gridTracks # <<>>
    /\ \E availableSpace \in AvailableSpaces, gap \in Gaps :
          gridResult' = [availableSpace |-> availableSpace, gap |-> gap,
                         sizes |-> resolveGridTracks(gridTracks, availableSpace, gap)]
    /\ UNCHANGED gridTracks

GridNext ==
    \/ AddTrack /\ UNCHANGED gridOthers
    \/ ResolveGridTracks /\ UNCHANGED gridOthers

(***************************************************************************)
(* Claims about the grid tracks, checked under SpecGrid.                   *)
(***************************************************************************)
\* the tracks are all fr tracks and A - g*(k-1) is positive
OnlyFrWithSpace ==
    /\ gridResult # Null
    /\ \A i \in DOMAIN gridTracks : IsFr(gridTracks[i])
    /\ gridResult.availableSpace - gridResult.gap * (Len(gridTracks) - 1) > 0

\* the sizes are proportional to the weights, and with the gaps they sum to A
ProportionalAndFilling ==
    /\ \A i, j \in DOMAIN gridTracks :
          Times(gridResult.sizes[i], Whole(parseFloat(gridTracks[j]).v))
             = Times(gridResult.sizes[j], Whole(parseFloat(gridTracks[i]).v))
    /\ Plus(SumOf(gridResult.sizes), Whole(gridResult.gap * (Len(gridTracks) - 1)))
          = Whole(gridResult.availableSpace)

\* C15 as stated: on a track list made only of fr units with A - g*(k-1)
\* positive, size_i / size_j = weight_i / weight_j for all i, j, and the sizes
\* plus g*(k-1) sum to A.
C15_FrTracksFillSpace == OnlyFrWithSpace => ProportionalAndFilling

\* C15, amended: the same, when moreover the weights sum to a positive number.
C15_FrTracksFillSpaceWhenWeighted ==
    (OnlyFrWithSpace /\ \E i \in DOMAIN gridTracks : parseFloat(gridTracks[i]).v > 0)
       => ProportionalAndFilling

\* C15's case: fr tracks of weights 1 and 2 with a gap, sized 1 : 2
C15_Witness ==
    /\ OnlyFrWithSpace
    /\ gridTracks = <<"1fr", "2fr">>
    /\ gridResult.gap > 0
    /\ gridResult.sizes[2] = Times(Whole(2), gridResult.sizes[1])
    /\ Less(Whole(0), gridResult.sizes[1])

(***************************************************************************)
(* The styles of batched nodes: the PARSE_STYLES handler of the style      *)
(* worker against GeometrySnapshot.processBatchLocally, and the copies of  *)
(* the gradient parser:                                                    *)
(*   "main"                 engine/WebEngine.jsx 636-712 (the same text in *)
(*                          canvasEngine/CanvasEngine.jsx 400-469)         *)
(*   "styleWorker"          public/workers/styleWorker.js 72-136           *)
(*   "gradientWorker"       public/workers/styleWorker.js 224-321, the     *)
(*                          canvas gradient worker                         *)
(*   "legacyGradientWorker" public/legacy-workers/workers/gradientWorker.js*)
(* A backgroundImage is kept as its function name, the first part when it  *)
(* is an angle or a direction, and the colour stop parts, each a colour    *)
(* text and a percentage (-1: none).                                       *)
(***************************************************************************)
Undefined == [kind |-> "undefined"]

Str(s) == [str |-> s]

FirstParts ==
    {"", "0deg", "90deg", "to top", "to right", "to bottom", "to left",
     "to top right", "to bottom right", "to bottom left", "to top left"}

StopLists ==
    LET red == [color |-> "rgb(255, 0, 0)", percent |-> 0 - 1]
        blue == [color |-> "rgb(0, 0, 255)", percent |-> 0 - 1]
    IN {<<red, blue>>,
        <<red>>,
        <<[red EXCEPT !.percent = 80], [blue EXCEPT !.percent = 20]>>,
        <<red, [blue EXCEPT !.percent = 150]>>,
        <<red, [color |-> "", percent |-> 50], blue>>,
        <<red, [color |-> "", percent |-> 0 - 1], blue>>}

\* computed.backgroundImage of an element
BackgroundImages ==
    {[fn |-> "none", first |-> "", stops |-> <<>>]}
    \cup {[fn |-> "linear-gradient", first |-> "", stops |-> s] : s \in StopLists}
    \cup {[fn |-> "linear-gradient", first |-> f,
           stops |-> <<[color |-> "rgb(255, 0, 0)", percent |-> 0 - 1],
                       [color |-> "rgb(0, 0, 255)", percent |-> 0 - 1]>>] : f \in FirstParts}
    \cup {[fn |-> "radial-gradient", first |-> "", stops |-> s] : s \in StopLists}

\* part.includes(word), for the words the parsers look for in the first part
Includes(part, word) ==
    CASE word = "deg" -> part \in {"0deg", "90deg"}
      [] word = "to " -> part \notin {"", "0deg", "90deg"}
      [] word = "top" -> part \in {"to top", "to top right", "to top left"}
      [] word = "right" -> part \in {"to right", "to top right", "to bottom right"}
      [] word = "bottom" -> part \in {"to bottom", "to bottom right", "to bottom left"}
      [] word = "left" -> part \in {"to left", "to bottom left", "to top left"}

\* directionMap[direction] of the gradient workers
directionMap(part) ==
    CASE part = "to top" -> 0
      [] part = "to right" -> 90
      [] part = "to bottom" -> 180
      [] part = "to left" -> 270
      [] part = "to top right" -> 45
      [] part = "to bottom right" -> 135
      [] part = "to bottom left" -> 225
      [] part = "to top left" -> 315

\* the angle parseLinearGradient of a copy gives for the first part
LinearAngle(copy, first) ==
    IF Includes(first, "deg")
    THEN IF copy = "styleWorker" /\ OrZero(parseFloat(first)) = 0
         THEN 180
         ELSE parseFloat(first).v
    ELSE IF Includes(first, "to ")
    THEN CASE copy = "main" ->
                \* right, left, top, bottom are tested in this order, each
                \* overwriting the angle
                IF Includes(first, "bottom") THEN 180
                ELSE IF Includes(first, "top") THEN 0
                ELSE IF Includes(first, "left") THEN 270
                ELSE IF Includes(first, "right") THEN 90
                ELSE 180
           [] copy = "styleWorker" ->
                \* bottom, top, right, left in this order
                IF Includes(first, "left") THEN 270
                ELSE IF Includes(first, "right") THEN 90
                ELSE IF Includes(first, "top") THEN 0
                ELSE 180
           [] copy = "gradientWorker" -> directionMap(first)
           [] copy = "legacyGradientWorker" ->
                \* directionMap[direction] || 180
                IF directionMap(first) = 0 THEN 180 ELSE directionMap(first)
    ELSE 180

\* does the colour pattern of the copy match the part?  The workers' pattern
\* /^(.+?)\s*(\d+%)?$/ matches every part that is not empty.
HasColor(copy, part) ==
    IF copy \in {"main", "styleWorker"}
    THEN part.color # ""
    ELSE part.color # "" \/ part.percent >= 0

\* the stop pushed for part k (from 0) of n parts
ColorStop(copy, part, k, n) ==
    LET percent == Frac(part.percent, 100)
    IN CASE copy = "main" ->
              [color |-> Str(part.color),
               position |-> IF part.percent >= 0 THEN percent
                            ELSE Frac(k, IF n - 1 = 0 THEN 1 ELSE n - 1)]
         [] copy = "styleWorker" ->
              \* parseColor gives the colour as a number and an alpha
              [color |-> Num(IF part.color = "rgb(255, 0, 0)" THEN 16711680 ELSE 255),
               alpha |-> Num(1),
               offset |-> IF part.percent >= 0 THEN percent
                          ELSE IF n - 1 = 0 THEN NaN ELSE Frac(k, n - 1)]
         [] OTHER ->
              IF part.color = ""
              THEN \* "50%": the lazy group takes "5", the percentage "0%"
                   [color |-> Str("5"), position |-> Frac(part.percent % 10, 100)]
              ELSE [color |-> Str(part.color),
                    position |-> IF part.percent >= 0 THEN percent
                                 ELSE IF copy = "gradientWorker"
                                 THEN Frac(k, IF n - 1 > 1 THEN n - 1 ELSE 1)
                                 ELSE IF n - 1 = 0 THEN NaN ELSE Frac(k, n - 1)]

RECURSIVE StopsFrom(_, _, _)
StopsFrom(copy, parts, i) ==
    IF i > Len(parts) THEN <<>>
    ELSE (IF HasColor(copy, parts[i])
          THEN <<ColorStop(copy, parts[i], i - 1, Len(parts))>>
          ELSE <<>>) \o StopsFrom(copy, parts, i + 1)

\* parts from startIdx on
parseColorStops(copy, parts) == StopsFrom(copy, parts, 1)

\* splitByComma of the canvas gradient worker drops the empty parts
parseGradient(copy, bg) ==
    IF bg.fn = "none" THEN Null
    ELSE LET parts == IF copy = "gradientWorker"
                      THEN SelectSeq(bg.stops, LAMBDA p : p.color # "" \/ p.percent >= 0)
                      ELSE bg.stops
         IN IF bg.fn = "linear-gradient"
            THEN [type |-> "linear",
                  angle |-> LinearAngle(copy, bg.first),
                  stops |-> parseColorStops(copy, parts)]
            ELSE [type |-> "radial", stops |-> parseColorStops(copy, parts)]

\* extractRawStyles of an element with the given background image
extractRawStyles(bg) ==
    [backgroundColor |-> "rgba(0, 0, 0, 0)", backgroundImage |-> bg,
     borderTopWidth |-> "1px", borderTopColor |-> "rgb(0, 0, 0)", borderTopStyle |-> "solid",
     borderRightWidth |-> "0px", borderRightColor |-> "rgb(0, 0, 0)",
     borderBottomWidth |-> "0px", borderBottomColor |-> "rgb(0, 0, 0)",
     borderLeftWidth |-> "0px", borderLeftColor |-> "rgb(0, 0, 0)",
     borderRadius |-> "0px", color |-> "rgb(0, 0, 0)",
     fontSize |-> "16px", fontFamily |-> "Arial", fontWeight |-> "400", fontStyle |-> "normal",
     textAlign |-> "start", justifyContent |-> "normal", alignItems |-> "normal",
     lineHeight |-> "normal", letterSpacing |-> "normal",
     paddingTop |-> "0px", paddingRight |-> "0px", paddingBottom |-> "0px", paddingLeft |-> "0px",
     opacity |-> "1", boxShadow |-> "none", transform |-> "none", zIndex |-> "auto",
     overflow |-> "visible", visibility |-> "visible",
     whiteSpace |-> "normal", wordBreak |-> "normal"]

\* the fields the worker and processBatchLocally compute by the same expression
SharedFields(raw) ==
    [backgroundColor |-> Str(raw.backgroundColor),
     backgroundImage |-> raw.backgroundImage,
     borderWidth |-> Num(OrZero(parseFloat(raw.borderTopWidth))),
     borderRightWidth |-> Num(OrZero(parseFloat(raw.borderRightWidth))),
     borderBottomWidth |-> Num(OrZero(parseFloat(raw.borderBottomWidth))),
     borderLeftWidth |-> Num(OrZero(parseFloat(raw.borderLeftWidth))),
     borderRightColor |-> Str(raw.borderRightColor),
     borderBottomColor |-> Str(raw.borderBottomColor),
     borderLeftColor |-> Str(raw.borderLeftColor),
     borderRadius |-> Str(raw.borderRadius),
     color |-> Str(raw.color),
     fontSize |-> Num(IF OrZero(parseFloat(raw.fontSize)) = 0 THEN 12 ELSE parseFloat(raw.fontSize).v),
     fontFamily |-> Str(raw.fontFamily),
     fontWeight |-> Str(raw.fontWeight),
     fontStyle |-> Str(raw.fontStyle),
     textAlign |-> Str(raw.textAlign),
     justifyContent |-> Str(raw.justifyContent),
     alignItems |-> Str(raw.alignItems),
     lineHeight |-> IF OrZero(parseFloat(raw.lineHeight)) = 0
                    THEN Times(Whole(parseFloat(raw.fontSize).v), Frac(12, 10))
                    ELSE Whole(parseFloat(raw.lineHeight).v),
     letterSpacing |-> Num(OrZero(parseFloat(raw.letterSpacing))),
     padding |-> [top |-> Num(OrZero(parseFloat(raw.paddingTop))),
                  right |-> Num(OrZero(parseFloat(raw.paddingRight))),
                  bottom |-> Num(OrZero(parseFloat(raw.paddingBottom))),
                  left |-> Num(OrZero(parseFloat(raw.paddingLeft)))],
     boxShadow |-> IF raw.boxShadow # "none" THEN Str(raw.boxShadow) ELSE Null,
     transform |-> IF raw.transform # "none" THEN Str(raw.transform) ELSE Null,
     whiteSpace |-> Str(raw.whiteSpace),
     wordBreak |-> Str(raw.wordBreak)]

\* Object.assign(target, source)
ObjectAssign(target, source) ==
    [f \in DOMAIN target \cup DOMAIN source |->
        IF f \in DOMAIN source THEN source[f] ELSE target[f]]

\* what extractStyles writes on the node before it adds it to the batch
DirectStyles(raw) ==
    [opacity |-> Num(OrOne(parseFloat(raw.opacity))),
     zIndex |-> IF raw.zIndex # "auto" THEN parseInt(raw.zIndex) ELSE Num(0),
     display |-> Str("block")]

\* one entry of processedBatch, assigned to the node's styles; raw has no
\* borderColor and no borderStyle
WorkerStyles(raw) ==
    ObjectAssign(DirectStyles(raw),
       ObjectAssign(SharedFields(raw),
          [borderColor |-> IF raw.borderTopColor # "" THEN Str(raw.borderTopColor) ELSE Undefined,
           borderStyle |-> IF raw.borderTopStyle # "" THEN Str(raw.borderTopStyle) ELSE Undefined,
           opacity |-> Num(OrOne(parseFloat(raw.opacity))),
           zIndex |-> IF raw.zIndex # "auto" THEN parseInt(raw.zIndex) ELSE Num(0),
           overflow |-> Str(raw.overflow),
           visibility |-> Str(raw.visibility),
           gradient |-> IF raw.backgroundImage.fn # "none"
                        THEN parseGradient("styleWorker", raw.backgroundImage)
                        ELSE Null]))

\* processBatchLocally on one node; raw has no display
LocalStyles(raw) ==
    LET assigned == ObjectAssign(DirectStyles(raw),
                       ObjectAssign(SharedFields(raw),
                          [borderColor |-> Str(raw.borderTopColor),
                           borderStyle |-> Str(raw.borderTopStyle),
                           display |-> Undefined]))
    IN IF raw.backgroundImage.fn # "none" /\ parseGradient("main", raw.backgroundImage) # Null
       THEN ObjectAssign(assigned, [gradient |-> parseGradient("main", raw.backgroundImage)])
       ELSE assigned

StylesInit ==
    /\ rawStyles = <<>>
    /\ workerStyles = <<>>
    /\ localStyles = <<>>
    /\ workerGradients = [c \in {"gradientWorker", "legacyGradientWorker"} |-> <<>>]

StylesOff == StylesInit

\* extractStyles with a batchContext: one more node in the batch
BatchNode ==
    /\ Len(rawStyles) < MaxBatchNodes
    /\ workerStyles = <<>> /\ localStyles = <<>>
    /\ \A c \in DOMAIN workerGradients : workerGradients[c] = <<>>
    /\ \E bg \in BackgroundImages : rawStyles' = Append(rawStyles, extractRawStyles(bg))
    /\ UNCHANGED <<workerStyles, localStyles, workerGradients>>

\* the style worker handles PARSE_STYLES and the result is assigned
StyleWorkerParses ==
    /\ rawStyles # <<>>
    /\ workerStyles = <<>>
    /\ workerStyles' = [i \in DOMAIN rawStyles |-> WorkerStyles(rawStyles[i])]
    /\ UNCHANGED <<rawStyles, localStyles, workerGradients>>

processBatchLocally ==
    /\ rawStyles # <<>>
    /\ localStyles = <<>>
    /\ localStyles' = [i \in DOMAIN rawStyles |-> LocalStyles(rawStyles[i])]
    /\ UNCHANGED <<rawStyles, workerStyles, workerGradients>>

\* a gradient worker handles PARSE_GRADIENT for the background images
GradientWorkerParses(copy) ==
    /\ rawStyles # <<>>
    /\ workerGradients[copy] = <<>>
    /\ workerGradients' =
          [workerGradients EXCEPT
              ![copy] = [i \in DOMAIN rawStyles |-> parseGradient(copy, rawStyles[i].backgroundImage)]]
    /\ UNCHANGED <<rawStyles, workerStyles, localStyles>>

StylesNext ==
    \/ BatchNode /\ UNCHANGED stylesOthers
    \/ StyleWorkerParses /\ UNCHANGED stylesOthers
    \/ processBatchLocally /\ UNCHANGED stylesOthers
    \/ GradientWorkerParses("gradientWorker") /\ UNCHANGED stylesOthers
    \/ GradientWorkerParses("legacyGradientWorker") /\ UNCHANGED stylesOthers

(***************************************************************************)
(* Claims about the styles and the gradient parsers, checked under         *)
(* SpecStyles.                                                             *)
(***************************************************************************)
\* C16: the styles the worker's PARSE_STYLES result leaves on the nodes of a
\* batch and the styles processBatchLocally leaves on them have the same
\* fields with equal values, the gradient descriptor included.
C16_WorkerAndLocalStylesEqual ==
    (workerStyles # <<>> /\ localStyles # <<>>) =>
       \A i \in DOMAIN rawStyles : workerStyles[i] = localStyles[i]

\* the gradient every copy of the parser has returned so far for node i
ParsedGradients(i) ==
    (IF localStyles # <<>> THEN {localStyles[i].gradient} ELSE {})
    \cup (IF workerStyles # <<>> THEN {workerStyles[i].gradient} ELSE {})
    \cup {workerGradients[c][i] : c \in {d \in DOMAIN workerGradients : workerGradients[d] # <<>>}}

\* C17: parseLinearGradient gives 180 when the first part is neither an angle
\* nor a direction, n for 'ndeg' (0 included), 0, 90, 180, 270 for to top,
\* right, bottom, left and 45, 135, 225, 315 for to top right, bottom right,
\* bottom left, top left; every copy of the parser gives the same angle.
C17_LinearGradientAngle ==
    \A i \in DOMAIN rawStyles :
       LET first == rawStyles[i].backgroundImage.first
           angle == IF first = "" THEN 180
                    ELSE IF first = "0deg" THEN 0
                    ELSE IF first = "90deg" THEN 90
                    ELSE directionMap(first)
       IN rawStyles[i].backgroundImage.fn = "linear-gradient" =>
             \A g \in ParsedGradients(i) : g.angle = angle

\* the places of the stop parts that hold a colour
ColourParts(parts) ==
    SelectSeq([i \in DOMAIN parts |-> i], LAMBDA i : parts[i].color # "")

\* C18: the stops parseColorStops returns (main thread and gradient workers)
\* have positions in [0,1] in ascending order; a stop without a percentage at
\* index k among n stop parts is at k/(n-1) (0 when n = 1); a part with no
\* colour is left out.
C18_StopsOrderedInUnitInterval ==
    \A i \in DOMAIN rawStyles :
       LET parts == rawStyles[i].backgroundImage.stops
           n == Len(parts)
           kept == ColourParts(parts)
           parsed == (IF localStyles # <<>> THEN {localStyles[i]} ELSE {})
                     \cup {[gradient |-> workerGradients[c][i]] :
                              c \in {d \in DOMAIN workerGradients : workerGradients[d] # <<>>}}
       IN rawStyles[i].backgroundImage.fn # "none" =>
             \A r \in parsed :
                LET stops == r.gradient.stops
                IN /\ Len(stops) = Len(kept)
                   /\ \A j \in DOMAIN stops :
                         /\ stops[j].position # NaN
                         /\ ~Less(stops[j].position, Whole(0))
                         /\ ~Less(Whole(1), stops[j].position)
                         /\ parts[kept[j]].percent < 0 =>
                               stops[j].position = Frac(kept[j] - 1, IF n = 1 THEN 1 ELSE n - 1)
                   /\ \A j, k \in DOMAIN stops :
                         j < k => ~Less(stops[k].position, stops[j].position)

(***************************************************************************)
(* GeometrySnapshot.capture and the inline transforms (engine/WebEngine.jsx *)
(* 79-117, canvasEngine/CanvasEngine.jsx 70-106).  capture() walks from the *)
(* element up to document.body, saves every inline transform that is set    *)
(* and replaces it by 'none', runs captureNode, and puts the saved values   *)
(* back in the statement after the captureNode call.  The walk, the         *)
(* traversal and the restore run synchronously, before the first await.     *)
(***************************************************************************)

\* element.style.transform of an element: not set, 'none', or a transform
InlineTransforms == {"", "none", "rotate(10deg)"}

\* what stands in the parent chain: an element with a style attribute
\* (HTML, SVG), document.body, or an Element of another namespace, which has
\* no style property
ElementKinds == {"styled", "body", "unstyled"}

\* the chain element, element.parentElement, ...: document.body can only be
\* its last member, and what is above document.body is never visited
DomChains ==
    { c \in UNION { [1..n -> [transform : InlineTransforms, kind : ElementKinds]] :
                      n \in 1..(MaxAncestors + 1) } :
        \A i \in DOMAIN c : c[i].kind = "body" => i = Len(c) }

\* the inline transforms of the chain
TransformsOf(chain) == [i \in DOMAIN chain |-> chain[i].transform]

TransformInit ==
    /\ domChain = <<>>
    /\ beforeCall = <<>>
    /\ transforms = <<>>
    /\ current = 0
    /\ capturePc = "idle"
    /\ captureOutcome = "none"

TransformOff == TransformInit

\* capture(element) is called, on a page whose chain is drawn at the first
\* call: "if (!element) return null", else the walk starts at the element
captureCalled(hasElement, chain) ==
    /\ capturePc \in {"idle", "ended"}
    /\ domChain' = IF domChain = <<>> THEN chain ELSE domChain
    /\ beforeCall' = TransformsOf(domChain')
    /\ transforms' = <<>>
    /\ IF hasElement
         THEN /\ current' = 1
              /\ capturePc' = "walking"
              /\ captureOutcome' = "pending"
         ELSE /\ current' = 0
              /\ capturePc' = "ended"
              /\ captureOutcome' = "null"

\* "while (current && current !== document.body)": the walk goes on
WalkGoesOn ==
    /\ capturePc = "walking"
    /\ current <= Len(domChain)
    /\ domChain[current].kind # "body"

\* one pass of the loop over an element with a style: a transform that is
\* set and is not 'none' is saved and replaced by 'none'
RemoveTransform ==
    /\ WalkGoesOn
    /\ domChain[current].kind = "styled"
    /\ LET transform == domChain[current].transform
       IN  IF transform # "" /\ transform # "none"
             THEN /\ transforms' = Append(transforms, [element |-> current, transform |-> transform])
                  /\ domChain' = [domChain EXCEPT ![current].transform = "none"]
             ELSE UNCHANGED <<transforms, domChain>>
    /\ current' = current + 1
    /\ UNCHANGED <<beforeCall, capturePc, captureOutcome>>

\* "current.style.transform" on an element without a style property raises
\* a TypeError, which ends the call
StyleMissing ==
    /\ WalkGoesOn
    /\ domChain[current].kind = "unstyled"
    /\ capturePc' = "ended"
    /\ captureOutcome' = "exception"
    /\ UNCHANGED <<domChain, beforeCall, transforms, current>>

\* the loop ends at document.body or above the topmost element; the root
\* rectangle is measured and "this.captureNode(element)" starts
TraversalStarts ==
    /\ capturePc = "walking"
    /\ ~WalkGoesOn
    /\ capturePc' = "traversing"
    /\ UNCHANGED <<domChain, beforeCall, transforms, current, captureOutcome>>

\* "transforms.forEach(({ element, transform }) => { element.style.transform
\* = transform; })"
RestoreTransforms(chain, saved) ==
    [i \in DOMAIN chain |->
        IF \E k \in DOMAIN saved : saved[k].element = i
          THEN [chain[i] EXCEPT !.transform =
                   (CHOOSE s \in {saved[k] : k \in DOMAIN saved} : s.element = i).transform]
          ELSE chain[i]]

\* captureNode returns and the next statement restores the transforms
captureNodeReturns ==
    /\ capturePc = "traversing"
    /\ domChain' = RestoreTransforms(domChain, transforms)
    /\ capturePc' = "resolving"
    /\ UNCHANGED <<beforeCall, transforms, current, captureOutcome>>

\* captureNode raises (its recursion over a subtree deeper than the call
\* stack raises a RangeError): capture() has no try/finally, the exception
\* leaves the async function and the restore statement is not reached
captureNodeThrows ==
    /\ capturePc = "traversing"
    /\ capturePc' = "ended"
    /\ captureOutcome' = "exception"
    /\ UNCHANGED <<domChain, beforeCall, transforms, current>>

\* the style and gradient promises are awaited and the snapshot is returned
captureReturns ==
    /\ capturePc = "resolving"
    /\ capturePc' = "ended"
    /\ captureOutcome' = "snapshot"
    /\ UNCHANGED <<domChain, beforeCall, transforms, current>>

TransformNext ==
    \/ (\E hasElement \in BOOLEAN, chain \in DomChains : captureCalled(hasElement, chain))
          /\ UNCHANGED transformOthers
    \/ RemoveTransform /\ UNCHANGED transformOthers
    \/ StyleMissing /\ UNCHANGED transformOthers
    \/ TraversalStarts /\ UNCHANGED transformOthers
    \/ captureNodeReturns /\ UNCHANGED transformOthers
    \/ captureNodeThrows /\ UNCHANGED transformOthers
    \/ captureReturns /\ UNCHANGED transformOthers

\* C19: when a call of capture() has ended, with a snapshot, with null or
\* with an exception, the inline transform of the element and of each of its
\* ancestors is what it was before the call; a transform differs from its
\* value before the call only by being 'none' while the walk and the
\* synchronous traversal run.
C19_TransformsRestoredWhateverOutcome ==
    \A i \in DOMAIN domChain :
        /\ capturePc = "ended" => domChain[i].transform = beforeCall[i]
        /\ domChain[i].transform # beforeCall[i] =>
              /\ domChain[i].transform = "none"
              /\ capturePc \in {"walking", "traversing"}

(***************************************************************************)
(* A renderer pass over a snapshot with nodes whose painting fails:         *)
(* GeometrySnapshot.renderToCanvas and PixiRendererEngine.render            *)
(* (engine/WebEngine.jsx 734-753 and 1032-1089) and                         *)
(* CanvasLayoutEngine.renderSnapshot (canvasEngine/CanvasEngine.jsx         *)
(* 1395-1417).  Each pass sorts the nodes and calls renderNode on them in   *)
(* turn; the model starts from the sorted list.                             *)
(***************************************************************************)

SnapshotRenderers == {"renderToCanvas", "renderSnapshot", "PixiRendererEngine.render"}

\* what goes wrong while a node is painted: nothing; a gradient stop whose
\* position or colour addColorStop rejects with an exception; an image
\* whose texture or bitmap cannot be loaded
PaintFailures == {"none", "gradientStop", "image"}

SortedNodeLists == UNION { [1..n -> PaintFailures] : n \in 1..MaxPassNodes }

\* renderNode of the renderer raises on the node.
\* renderToCanvas: "styles.gradient.stops.forEach(stop => {
\* gradient.addColorStop(stop.position, stop.color); })" has no try/catch
\* (WebEngine.jsx 825-827); the image is drawn only "if (img.complete)".
\* PixiRendererEngine: renderBox calls createGradientTexture, whose
\* "grad.addColorStop(stop.position, ...)" has no try/catch (1261,
\* 1417-1424); renderImage catches the load failure and returns null
\* (1700-1753).
\* renderSnapshot: the addColorStop call is inside "try { ... } catch (e) {
\* console.warn(...) }" (CanvasEngine.jsx 1560-1568); the image is drawn
\* only "if (img.complete && img.width > 0)".
renderNodeThrows(renderer, failure) ==
    /\ failure = "gradientStop"
    /\ renderer \in {"renderToCanvas", "PixiRendererEngine.render"}

PassInit ==
    /\ passRenderer = "none"
    /\ sortedNodes = <<>>
    /\ nodeIndex = 0
    /\ painted = {}
    /\ passPc = "idle"

PassOff == PassInit

\* the pass is called with a snapshot and reaches its loop "for (const node
\* of sortedNodes)"
PassStarts(renderer, sorted) ==
    /\ passPc = "idle"
    /\ passRenderer' = renderer
    /\ sortedNodes' = sorted
    /\ nodeIndex' = 1
    /\ painted' = {}
    /\ passPc' = "painting"

\* one pass of the loop in which renderNode returns
PaintNode ==
    /\ passPc = "painting"
    /\ nodeIndex <= Len(sortedNodes)
    /\ ~renderNodeThrows(passRenderer, sortedNodes[nodeIndex])
    /\ painted' = painted \cup {nodeIndex}
    /\ nodeIndex' = nodeIndex + 1
    /\ UNCHANGED <<passRenderer, sortedNodes, passPc>>

\* one pass of the loop in which renderNode raises: the loop has no
\* try/catch, the exception leaves the pass
PaintNodeThrows ==
    /\ passPc = "painting"
    /\ nodeIndex <= Len(sortedNodes)
    /\ renderNodeThrows(passRenderer, sortedNodes[nodeIndex])
    /\ passPc' = "thrown"
    /\ UNCHANGED <<passRenderer, sortedNodes, nodeIndex, painted>>

\* the loop is over and the pass returns
PassReturns ==
    /\ passPc = "painting"
    /\ nodeIndex > Len(sortedNodes)
    /\ passPc' = "returned"
    /\ UNCHANGED <<passRenderer, sortedNodes, nodeIndex, painted>>

PassNext ==
    \/ (\E renderer \in SnapshotRenderers, sorted \in SortedNodeLists :
            PassStarts(renderer, sorted)) /\ UNCHANGED passOthers
    \/ PaintNode /\ UNCHANGED passOthers
    \/ PaintNodeThrows /\ UNCHANGED passOthers
    \/ PassReturns /\ UNCHANGED passOthers

\* C20: a failure while one node is painted does not stop the pass: no pass
\* ends with an exception, and a pass that has ended has painted every node
\* of the snapshot, those after a failing node included.
C20_PaintFailureDoesNotStopPass ==
    /\ passPc # "thrown"
    /\ passPc = "returned" => painted = DOMAIN sortedNodes

(***************************************************************************)
(* The per-section bitmap cache of CanvasStage (canvasEngine/              *)
(* CanvasStage.jsx 26, 52-55, 139-154).  A bitmap is the data URL of the   *)
(* canvas CanvasLayoutEngine.renderSnapshot painted, so it stands for the  *)
(* snapshot it was rendered from.                                           *)
(***************************************************************************)

SectionIds == {"summary", "skills"}

\* what a section snapshot holds: the number of its nodes, its width and
\* height, and the rest of its content (the position, text and styles of
\* the nodes)
NodeContents == {"draft", "edited"}

SectionSizes == {100, 200}

SectionSnapshots ==
    [id : SectionIds, length : 1..MaxCachedNodes, width : SectionSizes,
     height : {100}, content : NodeContents]

\* "const cacheKey = `${id}-${sectionSnapshot.nodes.length}-${sectionSnapshot
\* .width}x${sectionSnapshot.height}`"
cacheKey(s) == [id |-> s.id, length |-> s.length, width |-> s.width, height |-> s.height]

\* engine.renderSnapshot(sectionSnapshot) and tempCanvas.toDataURL
toDataURL(s) == [renderedFrom |-> s]

CacheInit ==
    /\ sectionCache = <<>>
    /\ lastImage = Null

CacheOff == CacheInit

\* the cache part of one pass of the loop over the sections: a hit returns
\* the stored bitmap, a miss renders the snapshot and stores the bitmap
DrawSection(sectionSnapshot) ==
    LET key == cacheKey(sectionSnapshot)
    IN  IF key \in DOMAIN sectionCache
          THEN /\ lastImage' = [requested |-> sectionSnapshot, hit |-> TRUE,
                                imgData |-> sectionCache[key]]
               /\ UNCHANGED sectionCache
          ELSE /\ lastImage' = [requested |-> sectionSnapshot, hit |-> FALSE,
                                imgData |-> toDataURL(sectionSnapshot)]
               /\ sectionCache' = [k \in DOMAIN sectionCache \cup {key} |->
                                     IF k = key THEN toDataURL(sectionSnapshot)
                                                ELSE sectionCache[k]]

\* the cleanup of the mount effect: "renderCache.current.clear()"
ClearCache ==
    /\ sectionCache # <<>>
    /\ sectionCache' = <<>>
    /\ lastImage' = Null

CacheNext ==
    \/ (\E s \in SectionSnapshots : DrawSection(s)) /\ UNCHANGED cacheOthers
    \/ ClearCache /\ UNCHANGED cacheOthers

\* C21: a cache hit for a section returns a bitmap that was rendered from a
\* snapshot equal in content to the one requested: snapshots that differ in
\* a node's position, text or style never share a cache entry.
C21_CacheHitMatchesContent ==
    (lastImage # Null /\ lastImage.hit) =>
        lastImage.imgData.renderedFrom = lastImage.requested

(***************************************************************************)
(* FlexNode.calculateCrossSize, called by FlexNode.layout for every child  *)
(* (engine/WebEngine.jsx 2051-2054 and 2175-2186, canvasEngine/            *)
(* CanvasEngine.jsx 754-765; the two copies are the same text).            *)
(***************************************************************************)

FlexDirections == {"row", "row-reverse", "column", "column-reverse"}

\* alignItems after the default of layout(): "alignItems = 'stretch'"
AlignItemsValues == {"stretch", "flex-start", "center"}

\* the props of a child that calculateCrossSize reads, and the intrinsic size
\* measure() gave it
CrossChildren ==
    [alignSelf : {"undefined", "stretch", "center"},
     width : {"undefined", "120px"},
     height : {"undefined", "40px"},
     intrinsicSize : {[width |-> 120, height |-> 15], [width |-> 30, height |-> 40]}]

\* contentBox[crossAxis]
AvailableCrossSizes == {MaxCross, 2 * MaxCross}

\* a prop that is set: "child.props.height" as a condition
IsSet(prop) == prop # "undefined"

\* child.props.alignSelf || alignItems
AlignSelf(child, alignItems) ==
    IF IsSet(child.alignSelf) THEN child.alignSelf ELSE alignItems

IsRow(flexDirection) == flexDirection \in {"row", "row-reverse"}

calculateCrossSize(child, flexDirection, alignItems, availableCrossSize) ==
    IF /\ AlignSelf(child, alignItems) = "stretch"
       /\ ~IsSet(child.height)
       /\ ~IsSet(child.width)
    THEN availableCrossSize
    ELSE IF IsRow(flexDirection) THEN child.intrinsicSize.height
                                 ELSE child.intrinsicSize.width

CrossInit == crossResult = Null

CrossOff == CrossInit

\* FlexNode.layout computes the cross size of one child
LayoutFlexChild(child, flexDirection, alignItems, availableCrossSize) ==
    crossResult' =
        [child |-> child, flexDirection |-> flexDirection, alignItems |-> alignItems,
         availableCrossSize |-> availableCrossSize,
         crossSize |-> calculateCrossSize(child, flexDirection, alignItems, availableCrossSize)]

CrossNext ==
    (\E child \in CrossChildren, flexDirection \in FlexDirections,
        alignItems \in AlignItemsValues, availableCrossSize \in AvailableCrossSizes :
          LayoutFlexChild(child, flexDirection, alignItems, availableCrossSize))
       /\ UNCHANGED crossOthers

\* C23: a child whose effective alignment (alignSelf, else alignItems) is
\* stretch gets the full cross size of the content box exactly when it has no
\* explicit size on the cross axis: no height in a row container, no width in
\* a column container; a size on the main axis alone does not prevent it.
C23_StretchUnlessCrossSizeSet ==
    crossResult # Null =>
        LET child == crossResult.child
            crossProp == IF IsRow(crossResult.flexDirection) THEN child.height ELSE child.width
        IN  AlignSelf(child, crossResult.alignItems) = "stretch" =>
               ((crossResult.crossSize = crossResult.availableCrossSize) <=> ~IsSet(crossProp))

(***************************************************************************)
(* GridNode.layout: the placement and the bounds of a child                *)
(* (engine/WebEngine.jsx 2246-2294 and 2356-2427, canvasEngine/            *)
(* CanvasEngine.jsx 827-875 and 937-1008; the two copies are the same      *)
(* text).  Track sizes come from resolveGridTracks above.                  *)
(***************************************************************************)

\* gridTemplateColumns and gridTemplateRows of the GridNode
ColumnTemplates == UNION { [1..n -> {"1fr", "20px", "auto"}] : n \in 1..MaxGridColumns }

RowTemplates == { <<"auto">>, <<"auto", "20px">>, <<"20px", "auto", "auto">> }

\* the placement props of a child
GridChildOptions ==
    { [gridArea |-> "undefined", gridColumn |-> "undefined", gridRow |-> "undefined"] }
    \cup { [gridArea |-> a, gridColumn |-> "undefined", gridRow |-> "undefined"]
              : a \in {"1 / 1 / 2 / 2", "2 / 1 / 3 / 3", "1 / 2"} }
    \cup { [gridArea |-> "undefined", gridColumn |-> c, gridRow |-> r]
              : c \in {"undefined", "2", "1 / 3"}, r \in {"undefined", "2"} }
    \cup { [gridArea |-> "1 / 2", gridColumn |-> "1 / 3", gridRow |-> "2"] }

\* String(value).split('/').map(s => s.trim()) with parseInt on each part
GridLineParts(value) ==
    CASE value = "1 / 1 / 2 / 2" -> <<1, 1, 2, 2>>
      [] value = "2 / 1 / 3 / 3" -> <<2, 1, 3, 3>>
      [] value = "1 / 2" -> <<1, 2>>
      [] value = "1 / 3" -> <<1, 3>>
      [] value = "2" -> <<2>>

parseGridArea(area) ==
    LET parts == GridLineParts(area)
    IN  IF Len(parts) = 4
          THEN [rowStart |-> parts[1] - 1, colStart |-> parts[2] - 1,
                rowEnd |-> parts[3], colEnd |-> parts[4]]
        ELSE IF Len(parts) = 2
          THEN [rowStart |-> parts[1] - 1, colStart |-> parts[2] - 1,
                rowEnd |-> parts[1], colEnd |-> parts[2]]
        ELSE [colStart |-> 0, colEnd |-> 1, rowStart |-> 0, rowEnd |-> 1]

parseGridLine(value, isStart) ==
    IF value = "undefined" THEN (IF isStart THEN 1 ELSE 2)
    ELSE LET parts == GridLineParts(value)
             n == IF isStart THEN parts[1]
                  ELSE IF Len(parts) >= 2 THEN parts[2] ELSE parts[1]
         IN  IF n = 0 THEN (IF isStart THEN 1 ELSE 2) ELSE n

getGridPlacement(child, index, colCount) ==
    IF child.gridArea # "undefined" THEN parseGridArea(child.gridArea)
    ELSE IF child.gridColumn # "undefined" \/ child.gridRow # "undefined"
      THEN [colStart |-> parseGridLine(child.gridColumn, TRUE) - 1,
            colEnd |-> parseGridLine(child.gridColumn, FALSE),
            rowStart |-> parseGridLine(child.gridRow, TRUE) - 1,
            rowEnd |-> parseGridLine(child.gridRow, FALSE)]
    ELSE [colStart |-> index % colCount, colEnd |-> (index % colCount) + 1,
          rowStart |-> index \div colCount, rowEnd |-> (index \div colCount) + 1]

\* positions[k] of calculateGridLinePositions: 0 first; each size is added and
\* the sum pushed, and the gap is added after every size but the last
RECURSIVE GridLinePosition(_, _, _)
GridLinePosition(sizes, gap, k) ==
    IF k = 0 THEN Whole(0)
    ELSE Plus(Plus(GridLinePosition(sizes, gap, k - 1),
                   Whole(IF k >= 2 THEN gap ELSE 0)),
              sizes[k])

calculateGridLinePositions(sizes, gap) ==
    [k \in 0..Len(sizes) |-> GridLinePosition(sizes, gap, k)]

\* positions[i]: undefined outside the array
PositionAt(positions, i) ==
    IF i \in DOMAIN positions THEN positions[i] ELSE Undefined

\* a + b and a - b on numbers, one of which may be undefined or NaN
JsPlus(a, b) == IF a \in {Undefined, NaN} \/ b \in {Undefined, NaN} THEN NaN ELSE Plus(a, b)

JsMinus(a, b) == IF a \in {Undefined, NaN} \/ b \in {Undefined, NaN} THEN NaN ELSE Minus(a, b)

PlaceInit == gridLayout = Null

PlaceOff == PlaceInit

\* GridNode.layout(bounds) up to child.layout(childBounds) of the child at
\* index
LayoutGridChild(columns, rows, gap, contentBox, child, index) ==
    LET colSizes == resolveGridTracks(columns, contentBox.width, gap)
        rowSizes == resolveGridTracks(rows, contentBox.height, gap)
        colPositions == calculateGridLinePositions(colSizes, gap)
        rowPositions == calculateGridLinePositions(rowSizes, gap)
        placement == getGridPlacement(child, index, Len(columns))
    IN  /\ gridLayout = Null
        /\ gridLayout' =
          [columns |-> columns, rows |-> rows, gap |-> gap, contentBox |-> contentBox,
           child |-> child, index |-> index,
           colSizes |-> colSizes, rowSizes |-> rowSizes, placement |-> placement,
           childBounds |->
             [x |-> JsPlus(Whole(contentBox.x), PositionAt(colPositions, placement.colStart)),
              y |-> JsPlus(Whole(contentBox.y), PositionAt(rowPositions, placement.rowStart)),
              width |-> JsMinus(PositionAt(colPositions, placement.colEnd),
                                PositionAt(colPositions, placement.colStart)),
              height |-> JsMinus(PositionAt(rowPositions, placement.rowEnd),
                                 PositionAt(rowPositions, placement.rowStart))]]

PlaceNext ==
    (\E columns \in ColumnTemplates, rows \in RowTemplates, gap \in Gaps,
        origin \in {0, 12}, child \in GridChildOptions, index \in 0..MaxGridIndex :
          LayoutGridChild(columns, rows, gap,
                          [x |-> origin, y |-> origin, width |-> 120, height |-> 120],
                          child, index))
       /\ UNCHANGED placeOthers

(***************************************************************************)
(* Claims about the grid placement, checked under SpecGridPlacement.       *)
(***************************************************************************)
\* C24: an explicit gridArea, else gridColumn/gridRow, takes precedence over
\* auto-placement; lines are 1-indexed with an exclusive end, so gridArea
\* 'r1 / c1 / r2 / c2' occupies r2 - r1 row tracks from row r1 and c2 - c1
\* column tracks from column c1; a child that sets only one of gridColumn and
\* gridRow spans one track on the other axis; a child with no explicit
\* placement at index i is in row floor(i / colCount), column i mod colCount
\* and spans one track.
C24_ExplicitPlacementExclusiveEnd ==
    gridLayout # Null =>
      LET child == gridLayout.child
          p == gridLayout.placement
          colCount == Len(gridLayout.columns)
          i == gridLayout.index
      IN  /\ (child.gridArea # "undefined" /\ Len(GridLineParts(child.gridArea)) = 4) =>
                LET a == GridLineParts(child.gridArea)
                IN  /\ p.rowStart = a[1] - 1 /\ p.rowEnd - p.rowStart = a[3] - a[1]
                    /\ p.colStart = a[2] - 1 /\ p.colEnd - p.colStart = a[4] - a[2]
          /\ (child.gridArea = "undefined" /\ child.gridColumn # "undefined"
                /\ child.gridRow = "undefined") => p.rowEnd - p.rowStart = 1
          /\ (child.gridArea = "undefined" /\ child.gridColumn = "undefined"
                /\ child.gridRow # "undefined") => p.colEnd - p.colStart = 1
          /\ (child.gridArea = "undefined" /\ child.gridColumn = "undefined"
                /\ child.gridRow = "undefined") =>
                /\ p.rowStart = i \div colCount /\ p.rowEnd = p.rowStart + 1
                /\ p.colStart = i % colCount /\ p.colEnd = p.colStart + 1

\* C29: a child in the single track (row r, column c) has x = contentBox.x +
\* the sizes of columns 0..c-1 + c * gap and the width of column c, likewise
\* y and height; the row and the column of every auto-placed child exist in
\* the resolved track lists.
C29_TrackBoundsAndGaps ==
    gridLayout # Null =>
      LET p == gridLayout.placement
          b == gridLayout.childBounds
          g == gridLayout.gap
          child == gridLayout.child
          auto == /\ child.gridArea = "undefined" /\ child.gridColumn = "undefined"
                  /\ child.gridRow = "undefined"
          inGrid == /\ p.colStart \in 0..(Len(gridLayout.colSizes) - 1)
                    /\ p.rowStart \in 0..(Len(gridLayout.rowSizes) - 1)
      IN  /\ auto => inGrid
          /\ (inGrid /\ p.colEnd = p.colStart + 1 /\ p.rowEnd = p.rowStart + 1) =>
                /\ b.x = Plus(Plus(Whole(gridLayout.contentBox.x),
                                   SumOf(SubSeq(gridLayout.colSizes, 1, p.colStart))),
                              Whole(p.colStart * g))
                /\ b.width = gridLayout.colSizes[p.colStart + 1]
                /\ b.y = Plus(Plus(Whole(gridLayout.contentBox.y),
                                   SumOf(SubSeq(gridLayout.rowSizes, 1, p.rowStart))),
                              Whole(p.rowStart * g))
                /\ b.height = gridLayout.rowSizes[p.rowStart + 1]

(***************************************************************************)
(* BlockNode.layout of a block whose children are BlockNodes               *)
(* (engine/WebEngine.jsx 2491-2525, canvasEngine/CanvasEngine.jsx          *)
(* 1181-1215; the two copies are the same text).  The block itself is in   *)
(* normal flow and has no margin; its children have no margin.             *)
(***************************************************************************)

\* the children of the block: position, top and left props (numbers), and
\* the height of the intrinsicSize measure() gave the child
BlockChildOptions ==
    { [position |-> "relative", top |-> 0, left |-> 0, height |-> h] : h \in {10, 20} }
    \cup { [position |-> "absolute", top |-> o, left |-> o, height |-> 10] : o \in {0, 5} }

BlockChildLists == UNION { [1..n -> BlockChildOptions] : n \in 1..MaxBlockChildren }

\* the bounds layout() is called with, and the padding prop (a number)
BlockParents == [x : {0, 4}, y : {0, 4}, width : {100}, padding : {0, 8}]

\* getContentBox(this.bounds, padding), x and y
ContentBox(parent) == [x |-> parent.x + parent.padding, y |-> parent.y + parent.padding,
                       width |-> parent.width - 2 * parent.padding]

\* currentY when the forEach reaches child k: contentBox.y plus the
\* childHeight of every child before it ("currentY += childHeight")
RECURSIVE CurrentY(_, _, _)
CurrentY(parent, kids, k) ==
    IF k = 1 THEN ContentBox(parent).y
    ELSE CurrentY(parent, kids, k - 1) + kids[k - 1].height

\* BlockNode.layout(bounds) of a child: x and y of its this.bounds
ChildLayout(child, bounds) ==
    IF child.position = "absolute"
      THEN [x |-> bounds.x + child.left, y |-> bounds.y + child.top]
      ELSE [x |-> bounds.x, y |-> bounds.y]

BlockInit == blockLayout = Null

BlockOff == BlockInit

\* layout(bounds) of the block: every child is laid out at contentBox.x and
\* the running currentY
LayoutBlock(parent, kids) ==
    /\ blockLayout = Null
    /\ blockLayout' =
          [parent |-> parent, kids |-> kids,
           bounds |-> [k \in DOMAIN kids |->
                         ChildLayout(kids[k], [x |-> ContentBox(parent).x,
                                               y |-> CurrentY(parent, kids, k)])]]

BlockNext ==
    (\E parent \in BlockParents, kids \in BlockChildLists : LayoutBlock(parent, kids))
       /\ UNCHANGED blockOthers

\* the sum of the intrinsic heights of the in-flow children before child k
RECURSIVE InFlowHeightBefore(_, _)
InFlowHeightBefore(kids, k) ==
    IF k = 1 THEN 0
    ELSE InFlowHeightBefore(kids, k - 1)
           + (IF kids[k - 1].position = "absolute" THEN 0 ELSE kids[k - 1].height)

\* C25: a child in normal flow starts at the content box top plus the
\* intrinsic heights of the in-flow children before it; a child with position
\* absolute is at the parent's bounds origin plus its left and top and adds
\* nothing to the offset of the siblings after it.
C25_AbsoluteChildOutOfFlow ==
    blockLayout # Null =>
      LET kids == blockLayout.kids
          parent == blockLayout.parent
      IN  \A k \in DOMAIN kids :
             IF kids[k].position = "absolute"
               THEN /\ blockLayout.bounds[k].x = parent.x + kids[k].left
                    /\ blockLayout.bounds[k].y = parent.y + kids[k].top
               ELSE blockLayout.bounds[k].y =
                       ContentBox(parent).y + InFlowHeightBefore(kids, k)

(***************************************************************************)
(* Overlapping GeometrySnapshot.capture() calls on one instance            *)
(*   src/engine/WebEngine.jsx 79-149 (capture), 226-273 (captureNode, the  *)
(*   batch of a wide element), 499-518 (the gradient task of a node).      *)
(* The instance has a styleWorker and a gradientWorker with execute().     *)
(* capture() runs without interruption up to its first await; this.nodes,  *)
(* this.rootWidth, this.stylePromises and this.gradientPromises are fields *)
(* of the instance, and each call makes new arrays for them.  An array is  *)
(* named by the call that made it, 0 naming the constructor's.  A root     *)
(* element is recorded as its own node and one child: the child stands for *)
(* the children of the batch when the root has more than BatchThreshold    *)
(* children.                                                               *)
(***************************************************************************)
CaptureCalls == 1 .. MaxCaptures
ArrayIds == 0 .. MaxCaptures

\* the root elements: batched says it has more than BatchThreshold children,
\* gradient says it has a background-image
CaptureRoots == [width : {100, 200}, batched : BOOLEAN, gradient : BOOLEAN]

IdleCapture == [pc |-> "idle", awaited |-> 0, root |-> Null, result |-> Null]

OverlapInit ==
    /\ instance = [nodes |-> 0, rootWidth |-> 0, stylePromises |-> 0, gradientPromises |-> 0]
    /\ arrays = [nodes |-> [a \in ArrayIds |-> <<>>],
                 stylePromises |-> [a \in ArrayIds |-> <<>>],
                 gradientPromises |-> [a \in ArrayIds |-> <<>>]]
    /\ captures = [c \in CaptureCalls |-> IdleCapture]

\* the instance before any capture (the other models leave it so)
OverlapOff == OverlapInit

\* captureNode(element) on the root: the nodes pushed to this.nodes; the
\* gradient of the root and the styles of a batch are filled in later
CapturedNodes(root) ==
    << [element |-> "root", of |-> root, styled |-> ~root.gradient],
       [element |-> "child", of |-> root, styled |-> ~root.batched] >>

AllResolved(promises) == \A i \in DOMAIN promises : promises[i] = "resolved"

\* the object capture() returns, read from the fields of the instance
ReturnedSnapshot(inst, arrs) ==
    [nodes |-> inst.nodes,
     width |-> inst.rootWidth,
     resolved |-> \A i \in DOMAIN arrs.nodes[inst.nodes] : arrs.nodes[inst.nodes][i].styled]

\* capture() from 'if (this.stylePromises.length > 0)' on, for call c
AwaitStylesOrOn(c, root, inst, arrs) ==
    IF Len(arrs.stylePromises[inst.stylePromises]) > 0
    THEN [pc |-> "styles", awaited |-> inst.stylePromises, root |-> root, result |-> Null]
    ELSE IF Len(arrs.gradientPromises[inst.gradientPromises]) > 0
    THEN [pc |-> "gradients", awaited |-> inst.gradientPromises, root |-> root, result |-> Null]
    ELSE [pc |-> "returned", awaited |-> 0, root |-> root,
          result |-> ReturnedSnapshot(inst, arrs)]

\* capture() from 'if (this.gradientPromises.length > 0)' on, for call c
AwaitGradientsOrOn(c, inst, arrs) ==
    IF Len(arrs.gradientPromises[inst.gradientPromises]) > 0
    THEN [captures[c] EXCEPT !.pc = "gradients", !.awaited = inst.gradientPromises]
    ELSE [captures[c] EXCEPT !.pc = "returned", !.awaited = 0,
                             !.result = ReturnedSnapshot(inst, arrs)]

\* capture(element) up to its first await, or to its return when no task
\* was queued
captureStart(c, root) ==
    LET inst == [nodes |-> c, rootWidth |-> root.width,
                 stylePromises |-> c, gradientPromises |-> c]
        arrs == [nodes |-> [arrays.nodes EXCEPT ![c] = CapturedNodes(root)],
                 stylePromises |-> [arrays.stylePromises EXCEPT
                                      ![c] = IF root.batched THEN <<"pending">> ELSE <<>>],
                 gradientPromises |-> [arrays.gradientPromises EXCEPT
                                      ![c] = IF root.gradient THEN <<"pending">> ELSE <<>>]]
    IN /\ captures[c].pc = "idle"
       /\ \A b \in CaptureCalls : b < c => captures[b].pc # "idle"
       /\ instance' = inst
       /\ arrays' = arrs
       /\ captures' = [captures EXCEPT ![c] = AwaitStylesOrOn(c, root, inst, arrs)]

CaptureStart == \E c \in CaptureCalls, root \in CaptureRoots : captureStart(c, root)

\* the style task of the batch made by call a ends: the worker's styles, or
\* processBatchLocally, are put on the nodes of the batch
styleTaskDone(a) ==
    /\ arrays.stylePromises[a] = <<"pending">>
    /\ arrays' = [arrays EXCEPT !.stylePromises[a] = <<"resolved">>,
                                !.nodes[a][2].styled = TRUE]
    /\ UNCHANGED <<instance, captures>>

StyleTaskDone == \E a \in CaptureCalls : styleTaskDone(a)

\* the gradient task of the root captured by call a ends
gradientTaskDone(a) ==
    /\ arrays.gradientPromises[a] = <<"pending">>
    /\ arrays' = [arrays EXCEPT !.gradientPromises[a] = <<"resolved">>,
                                !.nodes[a][1].styled = TRUE]
    /\ UNCHANGED <<instance, captures>>

GradientTaskDone == \E a \in CaptureCalls : gradientTaskDone(a)

\* call c resumes after 'await Promise.all(this.stylePromises)'
resumeAfterStyles(c) ==
    /\ captures[c].pc = "styles"
    /\ AllResolved(arrays.stylePromises[captures[c].awaited])
    /\ captures' = [captures EXCEPT ![c] = AwaitGradientsOrOn(c, instance, arrays)]
    /\ UNCHANGED <<instance, arrays>>

ResumeAfterStyles == \E c \in CaptureCalls : resumeAfterStyles(c)

\* call c resumes after 'await Promise.all(this.gradientPromises)' and returns
resumeAfterGradients(c) ==
    /\ captures[c].pc = "gradients"
    /\ AllResolved(arrays.gradientPromises[captures[c].awaited])
    /\ captures' = [captures EXCEPT ![c].pc = "returned", ![c].awaited = 0,
                                    ![c].result = ReturnedSnapshot(instance, arrays)]
    /\ UNCHANGED <<instance, arrays>>

ResumeAfterGradients == \E c \in CaptureCalls : resumeAfterGradients(c)

OverlapNext ==
    \/ CaptureStart /\ UNCHANGED overlapOthers
    \/ StyleTaskDone /\ UNCHANGED overlapOthers
    \/ GradientTaskDone /\ UNCHANGED overlapOthers
    \/ ResumeAfterStyles /\ UNCHANGED overlapOthers
    \/ ResumeAfterGradients /\ UNCHANGED overlapOthers

\* call c returned the nodes of its own traversal, the size of its own root,
\* and every style of them resolved
OwnSnapshot(c) ==
    /\ captures[c].result.nodes = c
    /\ captures[c].result.width = captures[c].root.width
    /\ captures[c].result.resolved

\* C28: when two capture() calls on one GeometrySnapshot overlap, each call
\* returns the nodes of its own traversal with the width of its own root and
\* with every style resolved; neither returns the other call's node list.
C28_OverlappingCapturesReturnOwnSnapshot ==
    \A c \in CaptureCalls : captures[c].pc = "returned" => OwnSnapshot(c)

\* C28's failing case: the first call, suspended on its style batch while the
\* second call ran, returned the second call's node list
C28_ReturnedOtherCallsNodes ==
    /\ captures[1].pc = "returned"
    /\ captures[2].pc # "idle"
    /\ captures[1].result.nodes = 2

(***************************************************************************)
(* Specifications that need the other models' idle states.                 *)
(***************************************************************************)
\* a WorkerManager after its constructor, with no capture running
InitWM == WMInit /\ ClipOff /\ StageOff /\ GLOff /\ CapOff /\ PaintOff /\ LayoutOff /\ FlexOff /\ GridOff /\ StylesOff /\ TransformOff /\ PassOff /\ CacheOff /\ CrossOff /\ PlaceOff /\ BlockOff /\ OverlapOff

\* a GeometrySnapshot before capture(), with no WorkerManager constructed
InitClip == ClipInit /\ WMOff /\ StageOff /\ GLOff /\ CapOff /\ PaintOff /\ LayoutOff /\ FlexOff /\ GridOff /\ StylesOff /\ TransformOff /\ PassOff /\ CacheOff /\ CrossOff /\ PlaceOff /\ BlockOff /\ OverlapOff

SpecClip == InitClip /\ [][ClipNext]_vars

\* a mounted CanvasStage before its render effect has run
InitCanvasStage == StageInit /\ WMOff /\ ClipOff /\ GLOff /\ CapOff /\ PaintOff /\ LayoutOff /\ FlexOff /\ GridOff /\ StylesOff /\ TransformOff /\ PassOff /\ CacheOff /\ CrossOff /\ PlaceOff /\ BlockOff /\ OverlapOff

SpecCanvasStage == InitCanvasStage /\ [][StageNext]_vars

\* an initialized WebGLStage before its rendering effect has run
InitWebGLStage == GLInit /\ WMOff /\ ClipOff /\ StageOff /\ CapOff /\ PaintOff /\ LayoutOff /\ FlexOff /\ GridOff /\ StylesOff /\ TransformOff /\ PassOff /\ CacheOff /\ CrossOff /\ PlaceOff /\ BlockOff /\ OverlapOff

SpecWebGLStage == InitWebGLStage /\ [][GLNext]_vars

\* a GeometrySnapshot with its workers, before capture()
InitCapture == CapInit /\ WMOff /\ ClipOff /\ StageOff /\ GLOff /\ PaintOff /\ LayoutOff /\ FlexOff /\ GridOff /\ StylesOff /\ TransformOff /\ PassOff /\ CacheOff /\ CrossOff /\ PlaceOff /\ BlockOff /\ OverlapOff

SpecCapture == InitCapture /\ [][CapNext]_vars

SpecWM == InitWM /\ [][WMNext]_vars

\* the WorkerManager with terminate()
InitWMTerminate == InitWM /\ OverlapOff
SpecWMTerminate == InitWMTerminate /\ [][TerminateNext]_vars

\* a snapshot under capture, before any renderer has run
InitPaintOrder == PaintInit /\ WMOff /\ ClipOff /\ StageOff /\ GLOff /\ CapOff /\ LayoutOff /\ FlexOff /\ GridOff /\ StylesOff /\ TransformOff /\ PassOff /\ CacheOff /\ CrossOff /\ PlaceOff /\ BlockOff /\ OverlapOff

SpecPaintOrder == InitPaintOrder /\ [][PaintNext]_vars

\* no layout pass has started; the other models idle
InitLayoutTree == LayoutInit /\ WMOff /\ ClipOff /\ StageOff /\ GLOff /\ CapOff /\ PaintOff /\ FlexOff /\ GridOff /\ StylesOff /\ TransformOff /\ PassOff /\ CacheOff /\ CrossOff /\ PlaceOff /\ BlockOff /\ OverlapOff

SpecLayoutTree == InitLayoutTree /\ [][LayoutNext]_vars

\* a FlexNode under construction, not laid out yet
InitFlex == FlexInit /\ WMOff /\ ClipOff /\ StageOff /\ GLOff /\ CapOff /\ PaintOff /\ LayoutOff /\ GridOff /\ StylesOff /\ TransformOff /\ PassOff /\ CacheOff /\ CrossOff /\ PlaceOff /\ BlockOff /\ OverlapOff

SpecFlex == InitFlex /\ [][FlexNext]_vars

\* a GridNode whose template is being written, not laid out yet
InitGrid == GridInit /\ WMOff /\ ClipOff /\ StageOff /\ GLOff /\ CapOff /\ PaintOff /\ LayoutOff /\ FlexOff /\ StylesOff /\ TransformOff /\ PassOff /\ CacheOff /\ CrossOff /\ PlaceOff /\ BlockOff /\ OverlapOff

SpecGrid == InitGrid /\ [][GridNext]_vars

\* an empty style batch
InitStyles == StylesInit /\ WMOff /\ ClipOff /\ StageOff /\ GLOff /\ CapOff /\ PaintOff /\ LayoutOff /\ FlexOff /\ GridOff /\ TransformOff /\ PassOff /\ CacheOff /\ CrossOff /\ PlaceOff /\ BlockOff /\ OverlapOff

SpecStyles == InitStyles /\ [][StylesNext]_vars

\* no call of capture() yet
InitTransform == TransformInit /\ WMOff /\ ClipOff /\ StageOff /\ GLOff /\ CapOff /\ PaintOff /\ LayoutOff /\ FlexOff /\ GridOff /\ StylesOff /\ PassOff /\ CacheOff /\ CrossOff /\ PlaceOff /\ BlockOff /\ OverlapOff

SpecTransform == InitTransform /\ [][TransformNext]_vars

\* no pass yet
InitPass == PassInit /\ WMOff /\ ClipOff /\ StageOff /\ GLOff /\ CapOff /\ PaintOff /\ LayoutOff /\ FlexOff /\ GridOff /\ StylesOff /\ TransformOff /\ CacheOff /\ CrossOff /\ PlaceOff /\ BlockOff /\ OverlapOff

SpecPass == InitPass /\ [][PassNext]_vars

\* an empty bitmap cache
InitCache == CacheInit /\ WMOff /\ ClipOff /\ StageOff /\ GLOff /\ CapOff /\ PaintOff /\ LayoutOff /\ FlexOff /\ GridOff /\ StylesOff /\ TransformOff /\ PassOff /\ CrossOff /\ PlaceOff /\ BlockOff /\ OverlapOff

SpecCache == InitCache /\ [][CacheNext]_vars

\* no child laid out yet
InitCross == CrossInit /\ WMOff /\ ClipOff /\ StageOff /\ GLOff /\ CapOff /\ PaintOff /\ LayoutOff /\ FlexOff /\ GridOff /\ StylesOff /\ TransformOff /\ PassOff /\ CacheOff /\ PlaceOff /\ BlockOff /\ OverlapOff

SpecCross == InitCross /\ [][CrossNext]_vars

\* no grid child laid out yet
InitGridPlacement == PlaceInit /\ WMOff /\ ClipOff /\ StageOff /\ GLOff /\ CapOff /\ PaintOff /\ LayoutOff /\ FlexOff /\ GridOff /\ StylesOff /\ TransformOff /\ PassOff /\ CacheOff /\ CrossOff /\ BlockOff /\ OverlapOff

SpecGridPlacement == InitGridPlacement /\ [][PlaceNext]_vars

\* no block laid out yet
InitBlock == BlockInit /\ WMOff /\ ClipOff /\ StageOff /\ GLOff /\ CapOff /\ PaintOff /\ LayoutOff /\ FlexOff /\ GridOff /\ StylesOff /\ TransformOff /\ PassOff /\ CacheOff /\ CrossOff /\ PlaceOff /\ OverlapOff

SpecBlock == InitBlock /\ [][BlockNext]_vars

\* no capture() called on the instance yet
InitOverlap == OverlapInit /\ WMOff /\ ClipOff /\ StageOff /\ GLOff /\ CapOff /\ PaintOff /\ LayoutOff /\ FlexOff /\ GridOff /\ StylesOff /\ TransformOff /\ PassOff /\ CacheOff /\ CrossOff /\ PlaceOff /\ BlockOff

SpecOverlap == InitOverlap /\ [][OverlapNext]_vars

====
